---- MODULE Spec2Model ----
(***************************************************************************)
(* SecureQRDecoder.extractDataFields (src/lib/secure-qr-decoder.ts) as a   *)
(* state machine.  A byte is an integer 0..255, a Uint8Array a sequence of *)
(* bytes, a JavaScript string the sequence of its UTF-16 code units, and   *)
(* an optional value (a property that may be undefined) a sequence of      *)
(* length 0 (undefined) or 1 (the value).  Offsets are 0-based as in the   *)
(* source; sequences are 1-based as in TLA+.                               *)
(***************************************************************************)
EXTENDS Integers, Sequences, FiniteSets, TLC

\* ---------------------------------------------------------------- bounds
\* Largest number of text tokens laid out in an input buffer.
MaxTokens == 17
\* Largest length of the last text token of an input buffer.
MaxLastLen == 2
\* Largest number of photo bytes of an input buffer.
MaxPhotoLen == 1
\* Length of the truncated signature segment of a short input buffer.
ShortSignature == 200
MaxDecimalLen == 4
\* Number of startCamera and handleFileUpload calls of one QrScanner.
MaxCalls == 3

\* ------------------------------------------------------ program constants
DELIMITER == 255
SIGNATURE_SIZE == 256
HASH_SIZE == 32
MAX_FIELDS == 15

\* ------------------------------------------------------- optional values
Undefined == <<>>
Some(v) == <<v>>
IsDefined(o) == Len(o) = 1
Get(o) == o[1]

\* ------------------------------------------------------------ JavaScript
\* Uint8Array.prototype.slice(start, end): a negative index counts from the
\* end, every index is clamped to [0, length], an empty range gives [].
RelativeIndex(i, len) ==
  IF i < 0 THEN (IF len + i < 0 THEN 0 ELSE len + i)
  ELSE (IF i > len THEN len ELSE i)

slice(arr, start, end) ==
  LET k == RelativeIndex(start, Len(arr))
      final == RelativeIndex(end, Len(arr))
  IN IF final <= k THEN <<>> ELSE SubSeq(arr, k + 1, final)

\* White space of String.prototype.trim and of parseInt's prefix, among the
\* code units 0..255.
IsWhiteSpace(c) == c \in {9, 10, 11, 12, 13, 32, 160}

RECURSIVE TrimStart(_)
TrimStart(s) ==
  IF Len(s) > 0 /\ IsWhiteSpace(s[1]) THEN TrimStart(Tail(s)) ELSE s

RECURSIVE TrimEnd(_)
TrimEnd(s) ==
  IF Len(s) > 0 /\ IsWhiteSpace(s[Len(s)])
  THEN TrimEnd(SubSeq(s, 1, Len(s) - 1)) ELSE s

trim(s) == TrimEnd(TrimStart(s))

IsDigit(c) == c \in 48..57

\* Number of leading decimal digits of s.
RECURSIVE DigitRun(_)
DigitRun(s) ==
  IF Len(s) > 0 /\ IsDigit(s[1]) THEN 1 + DigitRun(Tail(s)) ELSE 0

\* Value of the decimal digit string s.
RECURSIVE DigitsValue(_)
DigitsValue(s) ==
  IF Len(s) = 0 THEN 0
  ELSE 10 * DigitsValue(SubSeq(s, 1, Len(s) - 1)) + (s[Len(s)] - 48)

NaN == [nan |-> TRUE, val |-> 0]

\* Number.parseInt(s, 10): leading white space, an optional sign, then the
\* longest run of digits; NaN when there is no digit.
parseInt(s) ==
  LET t == TrimStart(s)
      signed == Len(t) > 0 /\ t[1] \in {43, 45}
      negative == Len(t) > 0 /\ t[1] = 45
      body == IF signed THEN Tail(t) ELSE t
      n == DigitRun(body)
      v == DigitsValue(SubSeq(body, 1, n))
  IN IF n = 0 THEN NaN
     ELSE [nan |-> FALSE, val |-> IF negative THEN 0 - v ELSE v]

isNaN(x) == x.nan

\* bytesToString: String.fromCharCode of each byte, one code unit per byte.
bytesToString(bytes) == [i \in 1..Len(bytes) |-> bytes[i]]

\* One hexadecimal digit as a lower-case character code.
HexDigit(n) == IF n < 10 THEN 48 + n ELSE 87 + n

\* bytesToHexString: two lower-case hexadecimal digits per byte.
bytesToHexString(bytes) ==
  [i \in 1..(2 * Len(bytes)) |->
     LET b == bytes[(i + 1) \div 2]
     IN IF i % 2 = 1 THEN HexDigit(b \div 16) ELSE HexDigit(b % 16)]

\* The literal "3".
Three == <<51>>

\* ----------------------------------------------------------------- dates
\* A Date in local time: a calendar day and the milliseconds since its
\* midnight, or the Invalid Date.
InvalidDate == [valid |-> FALSE, y |-> 0, m |-> 1, d |-> 1, t |-> 0]
DateOf(y, m, d, t) == [valid |-> TRUE, y |-> y, m |-> m, d |-> d, t |-> t]

IsLeapYear(y) == (y % 4 = 0 /\ y % 100 # 0) \/ y % 400 = 0
DaysInMonth(y, m) ==
  IF m = 2 THEN (IF IsLeapYear(y) THEN 29 ELSE 28)
  ELSE IF m \in {4, 6, 9, 11} THEN 30 ELSE 31

\* MakeDay of ECMAScript: a day number outside the month carries into the
\* neighbouring months.
RECURSIVE NormalizeDay(_, _, _)
NormalizeDay(y, m, d) ==
  IF d > DaysInMonth(y, m)
  THEN (IF m = 12 THEN NormalizeDay(y + 1, 1, d - DaysInMonth(y, m))
        ELSE NormalizeDay(y, m + 1, d - DaysInMonth(y, m)))
  ELSE IF d < 1
  THEN (IF m = 1 THEN NormalizeDay(y - 1, 12, d + 31)
        ELSE NormalizeDay(y, m - 1, d + DaysInMonth(y, m - 1)))
  ELSE DateOf(y, m, d, 0)

\* The largest year of a valid time value.
MAX_DATE_YEAR == 275760

\* The day (year, monthIndex, day) at local midnight; a month index outside
\* 0..11 carries into the year.  Invalid beyond the range of time values.
MakeDate(year, monthIndex, day) ==
  IF year > MAX_DATE_YEAR \/ year < 0 - MAX_DATE_YEAR THEN InvalidDate
  ELSE NormalizeDay(year + (monthIndex \div 12), (monthIndex % 12) + 1, day)

\* new Date(year, monthIndex, day): a year 0..99 means 1900 + year.
NewDate(year, monthIndex, day) ==
  MakeDate(IF 0 <= year /\ year <= 99 THEN 1900 + year ELSE year,
           monthIndex, day)

\* date.setFullYear(year): same month, day and time of day in that year.
SetFullYear(date, year) ==
  LET day == MakeDate(year, date.m - 1, date.d)
  IN IF day.valid THEN [day EXCEPT !.t = date.t] ELSE day

\* a < b on two valid Dates.
DateBefore(a, b) ==
  \/ a.y < b.y
  \/ a.y = b.y /\ a.m < b.m
  \/ a.y = b.y /\ a.m = b.m /\ a.d < b.d
  \/ a.y = b.y /\ a.m = b.m /\ a.d = b.d /\ a.t < b.t

\* String.prototype.includes(ch) for a single character.
includes(s, ch) == \E i \in 1..Len(s) : s[i] = ch

\* String.prototype.split(ch) for a single character.
RECURSIVE split(_, _)
split(s, ch) ==
  IF ~includes(s, ch) THEN <<s>>
  ELSE LET i == CHOOSE k \in 1..Len(s) :
                  s[k] = ch /\ \A j \in 1..(k - 1) : s[j] # ch
       IN <<SubSeq(s, 1, i - 1)>> \o split(SubSeq(s, i + 1, Len(s)), ch)

Slash == 47
Hyphen == 45

\* The three date components of parseDateOfBirth, as
\* <<day, month, year>> of parseInt results, from the split parts.
DateComponents(parts, yearFirst) ==
  IF yearFirst
  THEN <<parseInt(parts[3]), parseInt(parts[2]), parseInt(parts[1])>>
  ELSE <<parseInt(parts[1]), parseInt(parts[2]), parseInt(parts[3])>>

\* The sanity check of parseDateOfBirth: null for a date after today or
\* before minDate (now, 120 years back), else the date.
MAX_AGE == 120
\* The check without its lower bound: only a date after now is refused.
SanityCheck_NoOldest(date, now) ==
  IF DateBefore(now, date) THEN Undefined ELSE Some(date)

SanityCheck(date, now) ==
  IF DateBefore(now, date) THEN Undefined
  ELSE IF DateBefore(date, SetFullYear(now, now.y - MAX_AGE)) THEN Undefined
  ELSE Some(date)

IsLetter(c) == c \in 65..90 \/ c \in 97..122

\* new Date(string): the Invalid Date for a string of letters; for any other
\* string outside the ISO format the result is left to the implementation
\* (the Invalid Date or some date).
DirectParse(s, dates) ==
  IF \A i \in 1..Len(s) : IsLetter(s[i]) THEN {InvalidDate}
  ELSE {InvalidDate} \cup dates

\* The Date that parseDateOfBirth builds from the cleaned string before its
\* checks, or the token "null" where it returns null at once; a set, for
\* the strings whose parse is left to the implementation.
BuiltDates(cleanDob, dates) ==
  IF includes(cleanDob, Slash)
  THEN LET parts == split(cleanDob, Slash)
       IN IF Len(parts) # 3 THEN {Undefined}
          ELSE LET c == DateComponents(parts, FALSE)
               IN IF isNaN(c[1]) \/ isNaN(c[2]) \/ isNaN(c[3]) THEN {Undefined}
                  ELSE {Some(NewDate(c[3].val, c[2].val - 1, c[1].val))}
  ELSE IF includes(cleanDob, Hyphen)
  THEN LET parts == split(cleanDob, Hyphen)
       IN IF Len(parts) # 3 THEN {Undefined}
          ELSE LET c == DateComponents(parts, Len(parts[1]) = 4)
               IN IF isNaN(c[1]) \/ isNaN(c[2]) \/ isNaN(c[3]) THEN {Undefined}
                  ELSE {Some(NewDate(c[3].val, c[2].val - 1, c[1].val))}
  ELSE {Some(x) : x \in DirectParse(cleanDob, dates)}

\* parseDateOfBirth(dobString) at the instant now: the Dates it may return
\* (Undefined for null).  toISOString throws on the Invalid Date, which the
\* catch block turns into null.
parseDateOfBirth(dobString, now, dates) ==
  { IF ~IsDefined(b) THEN Undefined
    ELSE IF ~Get(b).valid THEN Undefined
    ELSE SanityCheck(Get(b), now) : b \in BuiltDates(trim(dobString), dates) }

\* The difference of the calendar years alone.
calculateAge_YearsOnly(dob, now) == now.y - dob.y

\* calculateAge(dob) at the instant now.
calculateAge(dob, now) ==
  LET age == now.y - dob.y
      monthDiff == now.m - dob.m
  IN IF monthDiff < 0 \/ (monthDiff = 0 /\ now.d < dob.d) THEN age - 1 ELSE age

\* ------------------------------------------------------------ byte codec
\* What a call produced: a returned value, or a thrown Error with its
\* message as the segments that ": " joins.
Returns(v) == [thrown |-> FALSE, value |-> v, message |-> <<>>]
Throws(m) == [thrown |-> TRUE, value |-> <<>>, message |-> m]

\* The value of a digit character, 99 for any other character.
DigitValue(c) ==
  IF c \in 48..57 THEN c - 48
  ELSE IF c \in 97..102 THEN c - 87
  ELSE IF c \in 65..70 THEN c - 55
  ELSE 99

IsRadixDigits(s, radix) ==
  Len(s) > 0 /\ \A i \in 1..Len(s) : DigitValue(s[i]) < radix

RECURSIVE RadixValue(_, _)
RadixValue(s, radix) ==
  IF Len(s) = 0 THEN 0
  ELSE radix * RadixValue(SubSeq(s, 1, Len(s) - 1), radix) + DigitValue(s[Len(s)])

\* The radix that the prefix 0x, 0o or 0b announces, 0 for no prefix.
PrefixRadix(c) ==
  IF c \in {120, 88} THEN 16
  ELSE IF c \in {111, 79} THEN 8
  ELSE IF c \in {98, 66} THEN 2
  ELSE 0

SyntaxError == [ok |-> FALSE, val |-> 0]
BigIntOf(v) == [ok |-> TRUE, val |-> v]

\* BigInt(string): white space is trimmed; the empty string is 0n; then a
\* prefixed literal without sign, or decimal digits with an optional sign;
\* a SyntaxError for anything else.
BigInt(s) ==
  LET t == trim(s)
  IN IF Len(t) = 0 THEN BigIntOf(0)
     ELSE IF Len(t) >= 2 /\ t[1] = 48 /\ PrefixRadix(t[2]) # 0
     THEN (IF IsRadixDigits(SubSeq(t, 3, Len(t)), PrefixRadix(t[2]))
           THEN BigIntOf(RadixValue(SubSeq(t, 3, Len(t)), PrefixRadix(t[2])))
           ELSE SyntaxError)
     ELSE IF t[1] \in {43, 45}
     THEN (IF IsRadixDigits(Tail(t), 10)
           THEN BigIntOf(IF t[1] = 45 THEN 0 - RadixValue(Tail(t), 10)
                         ELSE RadixValue(Tail(t), 10))
           ELSE SyntaxError)
     ELSE IF IsRadixDigits(t, 10) THEN BigIntOf(RadixValue(t, 10))
     ELSE SyntaxError

RECURSIVE HexString(_)
HexString(n) ==
  IF n < 16 THEN <<HexDigit(n)>>
  ELSE HexString(n \div 16) \o <<HexDigit(n % 16)>>

\* bigInt.toString(16): a negative value keeps its sign.
toString16(v) == IF v < 0 THEN <<Hyphen>> \o HexString(0 - v) ELSE HexString(v)

\* The hex string left as it is.
PadEven_None(hexString) == hexString

\* if (hexString.length % 2 !== 0) hexString = "0" + hexString
PadEven(hexString) ==
  IF Len(hexString) % 2 # 0 THEN <<48>> \o hexString ELSE hexString

\* Number of leading hexadecimal digits of s.
RECURSIVE HexRun(_)
HexRun(s) ==
  IF Len(s) > 0 /\ DigitValue(s[1]) < 16 THEN 1 + HexRun(Tail(s)) ELSE 0

\* Number.parseInt(s, 16) of a string without white space and 0x prefix: an
\* optional sign, then the longest run of hexadecimal digits.
parseInt16(s) ==
  LET signed == Len(s) > 0 /\ s[1] \in {43, 45}
      negative == Len(s) > 0 /\ s[1] = 45
      body == IF signed THEN Tail(s) ELSE s
      n == HexRun(body)
      v == RadixValue(SubSeq(body, 1, n), 16)
  IN IF n = 0 THEN NaN
     ELSE [nan |-> FALSE, val |-> IF negative THEN 0 - v ELSE v]

\* byteArray[i] = byteValue: the store into a Uint8Array is modulo 256.
ToUint8(x) == IF x.nan THEN 0 ELSE x.val % 256

CONVERT_FAILED == "Failed to convert base10 to byte array"

convertBase10ToByteArray(base10String) ==
  LET bigInt == BigInt(base10String)
      hexString == PadEven(toString16(bigInt.val))
  IN IF ~bigInt.ok
     THEN Throws(<<CONVERT_FAILED, "Cannot convert to a BigInt">>)
     ELSE Returns([i \in 1..(Len(hexString) \div 2) |->
                     ToUint8(parseInt16(SubSeq(hexString, 2 * i - 1, 2 * i)))])

\* ---------------------------------------------------------------- inputs
\* The byteArray argument of extractDataFields.  An input buffer is laid out
\* as text tokens, each followed by the delimiter (the last one optionally),
\* then photo bytes, 0..2 hash segments and a signature segment; the
\* segments' lengths and bytes are chosen freely, so the buffers include
\* well-formed payloads, short ones, ones with too few or too many text
\* fields and ones whose binary tail holds delimiter bytes.
\* The first two tokens: "0", "1", "2", "3", "7" or "A", then "R"; and
\* "A" or "3", then "3".
LeadingTokens ==
  ({ <<48>>, <<49>>, <<50>>, <<51>>, <<55>>, <<65>> } \X { <<82>> })
    \cup ({ <<65>>, <<51>> } \X { Three })
TokenCounts == {0, 1, 2} \cup ((MaxTokens - 2)..MaxTokens)
SignatureLengths == {0, ShortSignature, SIGNATURE_SIZE}

\* The text token at 0-based position i of n tokens.
TokenAt(i, n, t0, t1, lastLen) ==
  IF i = 0 THEN t0
  ELSE IF i = 1 THEN t1
  ELSE IF i = n - 1 THEN [k \in 1..lastLen |-> 122]
  ELSE [k \in 1..(1 + (i % 2)) |-> 97 + i]

\* tokens[1] 0xFF tokens[2] 0xFF ... tokens[n], then 0xFF when lastDelim.
RECURSIVE JoinTokens(_, _)
JoinTokens(tokens, lastDelim) ==
  IF Len(tokens) = 0 THEN <<>>
  ELSE IF Len(tokens) = 1
       THEN tokens[1] \o (IF lastDelim THEN <<DELIMITER>> ELSE <<>>)
       ELSE tokens[1] \o <<DELIMITER>> \o JoinTokens(Tail(tokens), lastDelim)

\* The byte of the binary tail at payload offset k: distinct at neighbouring
\* offsets, and the delimiter at every fifth offset when withDelimiters.
TailByte(k, withDelimiters) ==
  IF withDelimiters /\ k % 5 = 0 THEN DELIMITER ELSE k % 251

BuildPayload(l) ==
  LET text == JoinTokens(l.tokens, l.lastDelim)
      tailLen == l.photoLen + HASH_SIZE * l.hashCount + l.signatureLen
  IN text \o [k \in 1..tailLen |-> TailByte(Len(text) + k - 1, l.tailDelimiters)]

Layouts ==
  { [tokens |-> [i \in 1..n |-> TokenAt(i - 1, n, t[1], t[2], lastLen)],
     lastDelim |-> d, photoLen |-> p, hashCount |-> h,
     signatureLen |-> s, tailDelimiters |-> f] :
      n \in TokenCounts, t \in LeadingTokens,
      lastLen \in {1, MaxLastLen}, d \in BOOLEAN, p \in {0, MaxPhotoLen},
      h \in 0..2, s \in SignatureLengths, f \in BOOLEAN }

\* Payloads of exactly SIGNATURE_SIZE bytes that begin with text tokens.
ExactLayouts ==
  { [tokens |-> [i \in 1..n |-> TokenAt(i - 1, n, t[1], t[2], 1)],
     lastDelim |-> d, photoLen |-> 0, hashCount |-> 0,
     signatureLen |-> SIGNATURE_SIZE - (IF n = 1 THEN 1 ELSE 3) - (IF d THEN 1 ELSE 0),
     tailDelimiters |-> f] :
      n \in {1, 2}, t \in LeadingTokens, d \in BOOLEAN, f \in BOOLEAN }

\* Decimal digits as character codes.
Digits2(n) == <<48 + (n \div 10), 48 + (n % 10)>>
Digits4(n) == Digits2(n \div 100) \o Digits2(n % 100)

DateForms == {"DD/MM/YYYY", "DD-MM-YYYY", "YYYY-MM-DD"}
\* The day <<y, m, d>> written in one of the three forms.
DateString(form, day) ==
  IF form = "DD/MM/YYYY"
  THEN Digits2(day[3]) \o <<Slash>> \o Digits2(day[2]) \o <<Slash>> \o Digits4(day[1])
  ELSE IF form = "DD-MM-YYYY"
  THEN Digits2(day[3]) \o <<Hyphen>> \o Digits2(day[2]) \o <<Hyphen>> \o Digits4(day[1])
  ELSE Digits4(day[1]) \o <<Hyphen>> \o Digits2(day[2]) \o <<Hyphen>> \o Digits2(day[3])

\* Days of birth around today's date, the 18th and the 120th birthday.
BirthDays ==
  { <<2000, 6, 15>>, <<2000, 2, 29>>, <<2001, 2, 29>>, <<2024, 6, 14>>,
    <<2024, 6, 15>>, <<2024, 6, 16>>, <<2006, 6, 14>>, <<2006, 6, 15>>,
    <<2006, 6, 16>>, <<1904, 6, 13>>, <<1904, 6, 14>>, <<1904, 6, 15>>,
    <<1904, 6, 16>>, <<1900, 2, 28>>, <<1900, 3, 1>>, <<1800, 1, 1>>,
    <<50, 6, 15>> }

\* Strings that are none of the three forms: "15/06", "aa/bb/cccc",
\* "1-2", " ", "2000" and "2000-xx-15".
OtherDobStrings ==
  { <<49, 53, 47, 48, 54>>, <<97, 97, 47, 98, 98, 47, 99, 99, 99, 99>>,
    <<49, 45, 50>>, <<32>>, <<50, 48, 48, 48>>,
    <<50, 48, 48, 48, 45, 120, 120, 45, 49, 53>> }

DobStrings ==
  { DateString(f, b) : f \in DateForms, b \in BirthDays } \cup OtherDobStrings

Noon == 43200000
Todays ==
  { DateOf(2024, 6, 14, Noon), DateOf(2024, 6, 15, 0),
    DateOf(2024, 6, 15, Noon), DateOf(2020, 2, 29, Noon) }
DefaultToday == DateOf(2024, 6, 15, Noon)

\* The Dates an implementation may make of a string outside the formats.
DirectDates == { DateOf(2000, 1, 1, 0), DateOf(3456, 1, 1, 0) }

\* Complete records ("0", "R", name, date of birth, ...) with the
\* signature, one per date-of-birth string.
DatedLayouts ==
  { [tokens |-> [i \in 1..(MAX_FIELDS + 1) |->
                   IF i = 4 THEN s
                   ELSE TokenAt(i - 1, MAX_FIELDS + 1, <<48>>, <<82>>, 1)],
     lastDelim |-> TRUE, photoLen |-> 0, hashCount |-> 0,
     signatureLen |-> SIGNATURE_SIZE, tailDelimiters |-> FALSE] :
      s \in DobStrings }

\* The characters of the strings given to convertBase10ToByteArray:
\* "0", "1", "2", "5", "6", "-", "x" and the space.
CodecChars == {48, 49, 50, 53, 54, 45, 120, 32}
Base10Strings == UNION { [1..n -> CodecChars] : n \in 0..MaxDecimalLen }

\* ----------------------------------------------------------------- state
VARIABLES
  layout,               \* how byteArray was laid out (input only)
  byteArray,            \* the argument of extractDataFields
  pc,                   \* position in extractDataFields
  index,                \* first pass: offset of the next field
  fieldValues,          \* the string array fieldValues
  fieldShift,           \* the special case was detected
  result,               \* the object result
  currentIndex,         \* offset of the end of the text fields
  signatureStartIndex,
  mobileStartIndex,     \* optional: set in the branches that read it
  emailStartIndex,      \* optional: set in the branches that read it
  photoEndIndex,        \* optional: set once the tail is extracted
  error,                \* optional: the message of the Error thrown
  today,                \* the instant that new Date() reads
  dob,                  \* optional: the Date parseDateOfBirth returned
  base10String,         \* the argument of convertBase10ToByteArray
  converted,            \* optional: what convertBase10ToByteArray produced
  scene,                \* the image given to tryMultipleProcessingMethods
  sweepPc,              \* position in tryMultipleProcessingMethods
  sizeIdx,              \* position of the loop over sizes
  methodIdx,            \* position of the loop over processingMethods
  invIdx,               \* position of the loop over inversionMethods
  attempted,            \* the jsQR calls made: <<size, method, inversion>>
  sweepResult,          \* optional: what tryMultipleProcessingMethods produced
  imageFile,            \* the argument of decodeFromFile and its environment
  decodePc,             \* position in decodeFromFile
  stagesRun,            \* the stages entered so far
  rawData,              \* optional: the string scanFromFile resolved with
  compressed,           \* optional: the bytes of convertBase10ToByteArray
  decompressedBytes,    \* optional: the bytes of decompressData
  decoded,              \* optional: what decodeFromFile produced
  step,                 \* CreateIdentity: the wizard step, in half steps
  signer,               \* CreateIdentity: a wallet is connected
  qrData,               \* optional: the record the scanner delivered
  lastFourDigits,       \* the digits typed in
  identityData,         \* optional: the record whose digits were verified
  livenessVerified,
  passedFor,            \* history: the identityData of the last handleLivenessComplete(true)
  zkProof,              \* optional: the proof of generateZkProof
  proofGenerated,
  createError,          \* optional: the message shown
  chain,                \* optional: the arguments of the storeProof transaction
  mounted,              \* QrScanner: the component is mounted
  activeTab,
  cameraActive,
  effectCameraActive,   \* cameraActive as captured by the tab effect's closures
  isScanning,
  decoderRef,           \* decoderRef.current is not null
  streamRef,            \* the stream id in streamRef.current, 0 for null
  animationFrameRef,    \* the frame id in animationFrameRef.current, 0 for null
  tasks,                \* pending promises, event handlers and frame callbacks
  liveStreams,          \* the streams obtained whose tracks are not stopped
  nextId,               \* the id of the next stream or upload
  scanned               \* number of onScan calls

parserVars == <<layout, byteArray, pc, index, fieldValues, fieldShift, result,
                currentIndex, signatureStartIndex, mobileStartIndex,
                emailStartIndex, photoEndIndex, error, today, dob>>

\* The variables of the other components, which the parser leaves alone.
codecVars == <<base10String, converted>>
sweepVars == <<scene, sweepPc, sizeIdx, methodIdx, invIdx, attempted,
               sweepResult>>
decodeVars == <<imageFile, decodePc, stagesRun, rawData, compressed,
                decompressedBytes, decoded>>
createVars == <<step, signer, qrData, lastFourDigits, identityData,
                livenessVerified, passedFor, zkProof, proofGenerated,
                createError, chain>>
scannerVars == <<mounted, activeTab, cameraActive, effectCameraActive,
                 isScanning, decoderRef, streamRef, animationFrameRef, tasks,
                 liveStreams, nextId, scanned>>
outsideParser == <<codecVars, sweepVars, decodeVars, createVars, scannerVars>>
outsideCodec == <<parserVars, sweepVars, decodeVars, createVars, scannerVars>>
outsideSweep == <<parserVars, codecVars, decodeVars, createVars, scannerVars>>
outsideDecode == <<parserVars, codecVars, sweepVars, createVars, scannerVars>>
outsideCreate == <<parserVars, codecVars, sweepVars, decodeVars, scannerVars>>
outsideScanner == <<parserVars, codecVars, sweepVars, decodeVars, createVars>>

vars == <<parserVars, outsideParser>>

\* const result: any = {}
EmptyResult ==
  [emailMobilePresent |-> Undefined, referenceId |-> Undefined,
   name |-> Undefined, dateOfBirth |-> Undefined, gender |-> Undefined,
   careOf |-> Undefined, district |-> Undefined, landmark |-> Undefined,
   house |-> Undefined, location |-> Undefined, pinCode |-> Undefined,
   postOffice |-> Undefined, state |-> Undefined, street |-> Undefined,
   subDistrict |-> Undefined, vtc |-> Undefined, mobileHash |-> Undefined,
   emailHash |-> Undefined, photo |-> Undefined, signature |-> Undefined,
   age |-> Undefined, isAdult |-> Undefined]

\* No call of convertBase10ToByteArray is under way.
CodecIdle == base10String = <<>> /\ converted = Undefined

\* An image in which nothing is detected.
BlankScene ==
  [ctx |-> TRUE, first |-> 0, later |-> FALSE, throwAt |-> 0,
   prepareFailsAt |-> 0, data |-> <<>>]

\* No call of tryMultipleProcessingMethods is under way.
SweepIdle ==
  /\ scene = BlankScene
  /\ sweepPc = "idle"
  /\ sizeIdx = 0
  /\ methodIdx = 0
  /\ invIdx = 0
  /\ attempted = <<>>
  /\ sweepResult = Undefined

\* An image file that loads and shows no code.
BlankFile ==
  [typeOk |-> TRUE, readOk |-> TRUE, loadOk |-> TRUE,
   sweep |-> Returns(Undefined), inflate |-> Throws(<<"incorrect header check">>)]

\* No call of decodeFromFile is under way.
DecodeIdle ==
  /\ imageFile = BlankFile
  /\ decodePc = "idle"
  /\ stagesRun = <<>>
  /\ rawData = Undefined
  /\ compressed = Undefined
  /\ decompressedBytes = Undefined
  /\ decoded = Undefined

\* The wizard steps 1, 2, 2.5, 3, 4, 5 counted in half steps.
STEP_SCAN == 2
STEP_DIGITS == 4
STEP_LIVENESS == 5
STEP_PROOF == 6
STEP_STORE == 8
STEP_DONE == 10

\* The CreateIdentity page as useState initialises it.
CreateIdle ==
  /\ step = STEP_SCAN
  /\ signer = FALSE
  /\ qrData = Undefined
  /\ lastFourDigits = <<>>
  /\ identityData = Undefined
  /\ livenessVerified = FALSE
  /\ passedFor = Undefined
  /\ zkProof = Undefined
  /\ proofGenerated = FALSE
  /\ createError = Undefined
  /\ chain = Undefined

\* The QrScanner after its first render and effects: the Upload tab is
\* shown, the decoder is made, nothing is pending.
ScannerIdle ==
  /\ mounted = TRUE
  /\ activeTab = "upload"
  /\ cameraActive = FALSE
  /\ effectCameraActive = FALSE
  /\ isScanning = FALSE
  /\ decoderRef = TRUE
  /\ streamRef = 0
  /\ animationFrameRef = 0
  /\ tasks = {}
  /\ liveStreams = {}
  /\ nextId = 1
  /\ scanned = 0

Init ==
  /\ CodecIdle
  /\ SweepIdle
  /\ DecodeIdle
  /\ CreateIdle
  /\ ScannerIdle
  /\ \/ layout \in Layouts \cup ExactLayouts /\ today = DefaultToday
     \/ layout \in DatedLayouts /\ today \in Todays
  /\ dob = Undefined
  /\ byteArray = BuildPayload(layout)
  /\ pc = "firstPass"
  /\ index = 0
  /\ fieldValues = <<>>
  /\ fieldShift = FALSE
  /\ result = EmptyResult
  /\ currentIndex = 0
  /\ signatureStartIndex = 0
  /\ mobileStartIndex = Undefined
  /\ emailStartIndex = Undefined
  /\ photoEndIndex = Undefined
  /\ error = Undefined

\* ------------------------------------------------------------ operations
\* The inner while loop: the offset of the first delimiter at or after
\* offset from, or the array's length when there is none.
\* The search that passes over the first delimiter it meets.
FindDelimiter_PassesOne(arr, from) ==
  LET found == {k \in from..(Len(arr) - 1) : arr[k + 1] = DELIMITER}
      first == CHOOSE k \in found : \A j \in found : k <= j
      later == {k \in found : k > first}
  IN IF later = {} THEN (IF from < Len(arr) THEN Len(arr) ELSE from)
     ELSE CHOOSE k \in later : \A j \in later : k <= j

FindDelimiter(arr, from) ==
  LET found == {k \in from..(Len(arr) - 1) : arr[k + 1] = DELIMITER}
  IN IF found = {} THEN (IF from < Len(arr) THEN Len(arr) ELSE from)
     ELSE CHOOSE k \in found : \A j \in found : k <= j

\* The field values read one position too far.
FieldAt_NextField(fv, i) == IF i + 1 < Len(fv) THEN Some(fv[i + 2]) ELSE Undefined

\* fieldValues[i] of JavaScript: undefined beyond the array's end.
FieldAt(fv, i) == IF i < Len(fv) THEN Some(fv[i + 1]) ELSE Undefined

\* The fields shifted from position 0 on: the first field is overwritten too.
ShiftFields_FromFirst(fv) ==
  [j \in 1..Len(fv) |-> IF j <= Len(fv) - 1 THEN fv[j + 1] ELSE fv[j]]

\* for (i = 1; i < fieldValues.length - 1; i++) fieldValues[i] = fieldValues[i + 1]
ShiftFields(fv) ==
  [j \in 1..Len(fv) |-> IF 2 <= j /\ j <= Len(fv) - 1 THEN fv[j + 1] ELSE fv[j]]

\* The sum over the field values of (length + 1).
RECURSIVE TextLength(_)
TextLength(fv) ==
  IF Len(fv) = 0 THEN 0 ELSE Len(fv[1]) + 1 + TextLength(Tail(fv))

\* One iteration of the first pass: read a field up to the next delimiter,
\* skip the delimiter, and leave the loop once more than 15 fields are read.
ReadField ==
  /\ pc = "firstPass"
  /\ index < Len(byteArray)
  /\ LET endIndex == FindDelimiter(byteArray, index)
         value == bytesToString(slice(byteArray, index, endIndex))
     IN /\ fieldValues' = Append(fieldValues, value)
        /\ index' = endIndex + 1
        /\ pc' = IF Len(fieldValues) + 1 > MAX_FIELDS
                 THEN "specialCase" ELSE "firstPass"
  /\ UNCHANGED outsideParser
  /\ UNCHANGED <<today, dob, layout, byteArray, fieldShift, result, currentIndex,
                 signatureStartIndex, mobileStartIndex, emailStartIndex,
                 photoEndIndex, error>>

\* The first pass ends at the end of the array.
EndOfArray ==
  /\ pc = "firstPass"
  /\ index >= Len(byteArray)
  /\ pc' = "specialCase"
  /\ UNCHANGED outsideParser
  /\ UNCHANGED <<today, dob, layout, byteArray, index, fieldValues, fieldShift, result,
                 currentIndex, signatureStartIndex, mobileStartIndex,
                 emailStartIndex, photoEndIndex, error>>

\* fieldValues[0].trim() on an empty fieldValues is a TypeError, which the
\* catch block rethrows as an Error.
ThrowNoFields ==
  /\ pc = "specialCase"
  /\ Len(fieldValues) = 0
  /\ pc' = "thrown"
  /\ error' = Some("Failed to extract data fields")
  /\ UNCHANGED outsideParser
  /\ UNCHANGED <<today, dob, layout, byteArray, index, fieldValues, fieldShift, result,
                 currentIndex, signatureStartIndex, mobileStartIndex,
                 emailStartIndex, photoEndIndex>>

\* The special case (first field not a number, second field "3"): the
\* indicator is set to 3 and the fields are shifted; otherwise the indicator
\* is the parsed first field, or 0 when it is not a number.
AnomalyCorrection(fv) ==
  LET parsedFirstValue == parseInt(trim(fv[1]))
      secondFieldValue == FieldAt(fv, 1)
  IN IF isNaN(parsedFirstValue) /\ secondFieldValue = Some(Three)
     THEN [fieldShift |-> TRUE, emailMobilePresent |-> 3,
           fieldValues |-> ShiftFields(fv)]
     ELSE [fieldShift |-> FALSE,
           emailMobilePresent |-> IF isNaN(parsedFirstValue) THEN 0
                                  ELSE parsedFirstValue.val,
           fieldValues |-> fv]

CheckSpecialCase ==
  /\ pc = "specialCase"
  /\ Len(fieldValues) > 0
  /\ LET c == AnomalyCorrection(fieldValues)
     IN /\ fieldShift' = c.fieldShift
        /\ result' = [result EXCEPT !.emailMobilePresent = Some(c.emailMobilePresent)]
        /\ fieldValues' = c.fieldValues
  /\ pc' = "assign"
  /\ UNCHANGED outsideParser
  /\ UNCHANGED <<today, dob, layout, byteArray, index, currentIndex, signatureStartIndex,
                 mobileStartIndex, emailStartIndex, photoEndIndex, error>>

\* The named text fields, by position; vtc only when there is a 16th field.
AssignFields ==
  /\ pc = "assign"
  /\ result' = [result EXCEPT
       !.referenceId = FieldAt(fieldValues, 1),
       !.name = FieldAt(fieldValues, 2),
       !.dateOfBirth = FieldAt(fieldValues, 3),
       !.gender = FieldAt(fieldValues, 4),
       !.careOf = FieldAt(fieldValues, 5),
       !.district = FieldAt(fieldValues, 6),
       !.landmark = FieldAt(fieldValues, 7),
       !.house = FieldAt(fieldValues, 8),
       !.location = FieldAt(fieldValues, 9),
       !.pinCode = FieldAt(fieldValues, 10),
       !.postOffice = FieldAt(fieldValues, 11),
       !.state = FieldAt(fieldValues, 12),
       !.street = FieldAt(fieldValues, 13),
       !.subDistrict = FieldAt(fieldValues, 14),
       !.vtc = IF Len(fieldValues) > MAX_FIELDS
               THEN FieldAt(fieldValues, 15) ELSE Undefined]
  /\ pc' = "skipText"
  /\ UNCHANGED outsideParser
  /\ UNCHANGED <<today, dob, layout, byteArray, index, fieldValues, fieldShift,
                 currentIndex, signatureStartIndex, mobileStartIndex,
                 emailStartIndex, photoEndIndex, error>>

\* Skip to the end of the text fields.
SkipTextFields ==
  /\ pc = "skipText"
  /\ currentIndex' = currentIndex + TextLength(fieldValues)
  /\ pc' = "tail"
  /\ UNCHANGED outsideParser
  /\ UNCHANGED <<today, dob, layout, byteArray, index, fieldValues, fieldShift, result,
                 signatureStartIndex, mobileStartIndex, emailStartIndex,
                 photoEndIndex, error>>

\* The signature taken one byte short.
SignatureStart_OneByteLate(dataLength) == dataLength - SIGNATURE_SIZE + 1

\* const signatureStartIndex = dataLength - SIGNATURE_SIZE
SignatureStart(dataLength) == dataLength - SIGNATURE_SIZE

\* A hash segment taken one byte too long.
HashStart_OneByteEarly(end) == end - HASH_SIZE - 1

\* The start of the hash segment that ends at offset end.
HashStart(end) == end - HASH_SIZE

\* The hex string of the hash segment that starts at offset start.
HashAt(arr, start) == bytesToHexString(slice(arr, start, start + HASH_SIZE))

\* result.emailMobilePresent === 3 || fieldShift
BothPresent(indicator, shift) == IF indicator = 3 THEN TRUE ELSE shift

\* Both hashes; the photo ends before the email hash.
ExtractBothHashes ==
  /\ pc = "tail"
  /\ BothPresent(Get(result.emailMobilePresent), fieldShift)
  /\ LET sig == SignatureStart(Len(byteArray))
         mobile == HashStart(sig)
         email == HashStart(mobile)
     IN /\ signatureStartIndex' = sig
        /\ mobileStartIndex' = Some(mobile)
        /\ emailStartIndex' = Some(email)
        /\ photoEndIndex' = Some(email)
        /\ result' = [result EXCEPT
             !.mobileHash = Some(HashAt(byteArray, mobile)),
             !.emailHash = Some(HashAt(byteArray, email)),
             !.photo = Some(slice(byteArray, currentIndex, email))]
  /\ pc' = "signature"
  /\ UNCHANGED outsideParser
  /\ UNCHANGED <<today, dob, layout, byteArray, index, fieldValues, fieldShift,
                 currentIndex, error>>

\* result.emailMobilePresent === 2: the mobile hash only.
ExtractMobileHash ==
  /\ pc = "tail"
  /\ ~BothPresent(Get(result.emailMobilePresent), fieldShift)
  /\ Get(result.emailMobilePresent) = 2
  /\ LET sig == SignatureStart(Len(byteArray))
         mobile == HashStart(sig)
     IN /\ signatureStartIndex' = sig
        /\ mobileStartIndex' = Some(mobile)
        /\ photoEndIndex' = Some(mobile)
        /\ result' = [result EXCEPT
             !.mobileHash = Some(HashAt(byteArray, mobile)),
             !.photo = Some(slice(byteArray, currentIndex, mobile))]
  /\ pc' = "signature"
  /\ UNCHANGED outsideParser
  /\ UNCHANGED <<today, dob, layout, byteArray, index, fieldValues, fieldShift,
                 currentIndex, emailStartIndex, error>>

\* result.emailMobilePresent === 1: the email hash only.
ExtractEmailHash ==
  /\ pc = "tail"
  /\ ~BothPresent(Get(result.emailMobilePresent), fieldShift)
  /\ Get(result.emailMobilePresent) = 1
  /\ LET sig == SignatureStart(Len(byteArray))
         email == HashStart(sig)
     IN /\ signatureStartIndex' = sig
        /\ emailStartIndex' = Some(email)
        /\ photoEndIndex' = Some(email)
        /\ result' = [result EXCEPT
             !.emailHash = Some(HashAt(byteArray, email)),
             !.photo = Some(slice(byteArray, currentIndex, email))]
  /\ pc' = "signature"
  /\ UNCHANGED outsideParser
  /\ UNCHANGED <<today, dob, layout, byteArray, index, fieldValues, fieldShift,
                 currentIndex, mobileStartIndex, error>>

\* Any other indicator: no hash; the photo ends before the signature.
ExtractNoHash ==
  /\ pc = "tail"
  /\ ~BothPresent(Get(result.emailMobilePresent), fieldShift)
  /\ Get(result.emailMobilePresent) \notin {1, 2}
  /\ LET sig == SignatureStart(Len(byteArray))
     IN /\ signatureStartIndex' = sig
        /\ photoEndIndex' = Some(sig)
        /\ result' = [result EXCEPT
             !.photo = Some(slice(byteArray, currentIndex, sig))]
  /\ pc' = "signature"
  /\ UNCHANGED outsideParser
  /\ UNCHANGED <<today, dob, layout, byteArray, index, fieldValues, fieldShift,
                 currentIndex, mobileStartIndex, emailStartIndex, error>>

\* result.signature = byteArray.slice(signatureStartIndex, dataLength)
ExtractSignature ==
  /\ pc = "signature"
  /\ result' = [result EXCEPT !.signature =
                  Some(slice(byteArray, signatureStartIndex, Len(byteArray)))]
  /\ pc' = "age"
  /\ UNCHANGED outsideParser
  /\ UNCHANGED <<today, dob, layout, byteArray, index, fieldValues, fieldShift,
                 currentIndex, signatureStartIndex, mobileStartIndex,
                 emailStartIndex, photoEndIndex, error>>

\* A value that an if statement takes as true: a non-empty string.
Truthy(o) == IsDefined(o) /\ Get(o) # <<>>

\* if (result.dateOfBirth) is false: the record is returned as it is.
SkipAge ==
  /\ pc = "age"
  /\ ~Truthy(result.dateOfBirth)
  /\ pc' = "returned"
  /\ UNCHANGED outsideParser
  /\ UNCHANGED <<today, dob, layout, byteArray, index, fieldValues, fieldShift,
                 result, currentIndex, signatureStartIndex, mobileStartIndex,
                 emailStartIndex, photoEndIndex, error>>

\* const dob = this.parseDateOfBirth(result.dateOfBirth); a null returns the
\* record as it is.
ParseDateOfBirth ==
  /\ pc = "age"
  /\ Truthy(result.dateOfBirth)
  /\ \E r \in parseDateOfBirth(Get(result.dateOfBirth), today, DirectDates) :
       /\ dob' = r
       /\ pc' = IF IsDefined(r) THEN "calculateAge" ELSE "returned"
  /\ UNCHANGED outsideParser
  /\ UNCHANGED <<today, layout, byteArray, index, fieldValues, fieldShift,
                 result, currentIndex, signatureStartIndex, mobileStartIndex,
                 emailStartIndex, photoEndIndex, error>>

ADULT_AGE == 18
\* Adult from the day after the 18th birthday only.
IsAdult_Over(age) == age > ADULT_AGE
\* result.age >= 18
IsAdult(age) == age >= ADULT_AGE

\* result.age = this.calculateAge(dob); result.isAdult = result.age >= 18
CalculateAge ==
  /\ pc = "calculateAge"
  /\ LET age == calculateAge(Get(dob), today)
     IN result' = [result EXCEPT !.age = Some(age), !.isAdult = Some(IsAdult(age))]
  /\ pc' = "returned"
  /\ UNCHANGED outsideParser
  /\ UNCHANGED <<today, dob, layout, byteArray, index, fieldValues, fieldShift,
                 currentIndex, signatureStartIndex, mobileStartIndex,
                 emailStartIndex, photoEndIndex, error>>

Next ==
  \/ ReadField
  \/ EndOfArray
  \/ ThrowNoFields
  \/ CheckSpecialCase
  \/ AssignFields
  \/ SkipTextFields
  \/ ExtractBothHashes
  \/ ExtractMobileHash
  \/ ExtractEmailHash
  \/ ExtractNoHash
  \/ ExtractSignature
  \/ SkipAge
  \/ ParseDateOfBirth
  \/ CalculateAge

Spec == Init /\ [][Next]_vars

\* The call has returned a record.
Returned == pc = "returned"
\* The call has thrown.
Thrown == pc = "thrown"

\* ---------------------------------------------------------------- claims
\* The length of the payload.
DataLength == Len(byteArray)

\* The payload bytes at offsets p <= k < q (those that exist).
PayloadRange(p, q) ==
  LET lo == IF p < 0 THEN 0 ELSE p
      hi == IF q > DataLength THEN DataLength ELSE q
  IN IF hi <= lo THEN <<>> ELSE SubSeq(byteArray, lo + 1, hi)

\* The indicator of the record.
Indicator == Get(result.emailMobilePresent)

\* The named text fields of the record, by position 1..15.
FieldNames ==
  <<"referenceId", "name", "dateOfBirth", "gender", "careOf", "district",
    "landmark", "house", "location", "pinCode", "postOffice", "state",
    "street", "subDistrict", "vtc">>
NamedField(i) == result[FieldNames[i]]

\* Number of hash segments the record holds.
HashesPresent ==
  (IF IsDefined(result.emailHash) THEN 1 ELSE 0)
    + (IF IsDefined(result.mobileHash) THEN 1 ELSE 0)

\* C1: every returned record's signature has length exactly 256 and is the
\* last 256 bytes of the payload.  (Violated: a payload shorter than 256
\* bytes is not rejected, and its signature is the whole payload.)
C1_SignatureIsLast256 ==
  Returned =>
    /\ Len(Get(result.signature)) = SIGNATURE_SIZE
    /\ DataLength >= SIGNATURE_SIZE
    /\ Get(result.signature) =
         PayloadRange(DataLength - SIGNATURE_SIZE, DataLength)

\* C2: every returned record's photo is the payload from the offset after
\* the delimiter ending the last scanned text token (index, as the first
\* pass leaves it) to the start of the first present hash segment, or of the
\* signature when no hash is present.  (Violated: after the field shift the
\* text length is summed over the shifted field values.)
C2_PhotoRange ==
  Returned =>
    Get(result.photo) =
      PayloadRange(index, DataLength - SIGNATURE_SIZE - HASH_SIZE * HashesPresent)

\* C3: with indicator 3 or the field shift, mobileHash is the hex string of
\* payload[L-288, L-256), emailHash that of payload[L-320, L-288), and the
\* photo ends at offset L-320.  (Violated for L < 320.)
C3_BothHashesLayout ==
  (Returned /\ (Indicator = 3 \/ fieldShift)) =>
    /\ result.mobileHash =
         Some(bytesToHexString(PayloadRange(DataLength - 288, DataLength - 256)))
    /\ result.emailHash =
         Some(bytesToHexString(PayloadRange(DataLength - 320, DataLength - 288)))
    /\ Get(result.photo) = PayloadRange(currentIndex, DataLength - 320)

\* C4: emailHash is present exactly for indicator 1 or 3 (or the field
\* shift), mobileHash exactly for indicator 2 or 3 (or the field shift); a
\* single hash is payload[L-288, L-256); with indicator 0 the photo ends at
\* L-256.  (Violated for payloads shorter than the trailing segments.)
C4_HashPresence ==
  Returned =>
    /\ IsDefined(result.emailHash) <=> (Indicator \in {1, 3} \/ fieldShift)
    /\ IsDefined(result.mobileHash) <=> (Indicator \in {2, 3} \/ fieldShift)
    /\ (Indicator = 2 /\ ~fieldShift) =>
         result.mobileHash =
           Some(bytesToHexString(PayloadRange(DataLength - 288, DataLength - 256)))
    /\ (Indicator = 1 /\ ~fieldShift) =>
         result.emailHash =
           Some(bytesToHexString(PayloadRange(DataLength - 288, DataLength - 256)))
    /\ (Indicator = 0 /\ ~fieldShift) =>
         Get(result.photo) = PayloadRange(currentIndex, DataLength - 256)

NoDelimiterInside ==
  /\ ~layout.tailDelimiters
  /\ \A i \in 1..Len(layout.tokens) :
       \A k \in 1..Len(layout.tokens[i]) : layout.tokens[i][k] # DELIMITER
BuiltBuffer ==
  /\ Len(layout.tokens) \in 1..(MAX_FIELDS + 1)
  /\ NoDelimiterInside
  /\ layout.signatureLen = SIGNATURE_SIZE

\* The first token is not a number and the second is "3".
SpecialCaseTokens ==
  /\ Len(layout.tokens) >= 2
  /\ isNaN(parseInt(trim(layout.tokens[1])))
  /\ layout.tokens[2] = Three

\* Every token after the first is the named field at its position, and the
\* signature is the last 256 bytes.
TokensRecovered ==
  /\ \A i \in 1..(Len(layout.tokens) - 1) :
       NamedField(i) = Some(layout.tokens[i + 1])
  /\ result.signature =
       Some(SubSeq(byteArray, DataLength - SIGNATURE_SIZE + 1, DataLength))

\* C6 as stated: a buffer token0 0xFF ... tokenN photo [hashes] signature,
\* with no delimiter between tokenN and the photo, has each token recovered
\* as the named field at its position and the signature as its last 256
\* bytes.
C6_RecoversUndelimitedTokens ==
  (Returned /\ BuiltBuffer /\ ~layout.lastDelim) => TokensRecovered

\* C6 (amended): for a buffer token0 0xFF ... tokenN 0xFF photo [hashes]
\* signature(256), every token followed by the delimiter, N <= 15, no
\* delimiter inside a token or binary segment, and the special case not
\* triggered (token0 a number or token1 not "3"), each tokenI with
\* 1 <= I <= N is recovered as the named field at position I and the
\* signature is the last 256 bytes.
C6_RecoversDelimitedTokens ==
  (Returned /\ BuiltBuffer /\ layout.lastDelim /\ ~SpecialCaseTokens)
    => TokensRecovered

\* C6 witness: a record read from such a buffer with 16 tokens and both
\* hashes, vtc being the 16th token.
C6_Witness ==
  /\ Returned /\ BuiltBuffer /\ layout.lastDelim /\ ~SpecialCaseTokens
  /\ Len(layout.tokens) = MAX_FIELDS + 1
  /\ layout.hashCount = 2 /\ Indicator = 3
  /\ result.vtc = Some(layout.tokens[MAX_FIELDS + 1])
  /\ Len(Get(result.photo)) = layout.photoLen /\ layout.photoLen > 0

\* C7: every returned record's indicator is in 0..3, and is 3 after the
\* field shift.  (Violated: a first token such as "7" is taken as it is.)
C7_IndicatorRange ==
  Returned =>
    /\ Indicator \in 0..3
    /\ fieldShift => Indicator = 3

\* C8: no record is returned for a payload from which fewer than 2 tokens
\* are recoverable, such as one without a delimiter byte.  (Violated: only
\* the empty payload throws.)
C8_FewTokensRejected ==
  Returned =>
    /\ Len(fieldValues) >= 2
    /\ \E k \in 1..DataLength : byteArray[k] = DELIMITER

\* C9: no record is returned for a payload shorter than 256 bytes plus 32
\* per hash segment the indicator requires.  (Violated: no length is
\* checked.)
C9_ShortPayloadRejected ==
  Returned =>
    DataLength >= SIGNATURE_SIZE + HASH_SIZE *
      (IF Indicator = 3 \/ fieldShift THEN 2
       ELSE IF Indicator \in {1, 2} THEN 1 ELSE 0)

\* C10: a returned record was read from at least 15 text tokens, and its
\* mandatory text fields (positions 1..14) are all defined.  (Violated:
\* missing fields are left undefined.)
C10_MandatoryFieldsDefined ==
  Returned =>
    /\ Len(fieldValues) >= MAX_FIELDS
    /\ \A i \in 1..(MAX_FIELDS - 1) : IsDefined(NamedField(i))
\* ------------------------------------------------- byte codec: the calls
\* No call of extractDataFields is under way.
ParserIdle ==
  /\ layout = [tokens |-> <<>>, lastDelim |-> FALSE, photoLen |-> 0,
               hashCount |-> 0, signatureLen |-> 0, tailDelimiters |-> FALSE]
  /\ byteArray = <<>>
  /\ pc = "idle"
  /\ index = 0
  /\ fieldValues = <<>>
  /\ fieldShift = FALSE
  /\ result = EmptyResult
  /\ currentIndex = 0
  /\ signatureStartIndex = 0
  /\ mobileStartIndex = Undefined
  /\ emailStartIndex = Undefined
  /\ photoEndIndex = Undefined
  /\ error = Undefined
  /\ today = DefaultToday
  /\ dob = Undefined

InitCodec ==
  /\ ParserIdle
  /\ CreateIdle
  /\ ScannerIdle
  /\ SweepIdle
  /\ DecodeIdle
  /\ base10String \in Base10Strings
  /\ converted = Undefined

\* One call of convertBase10ToByteArray(base10String).
Convert ==
  /\ converted = Undefined
  /\ converted' = Some(convertBase10ToByteArray(base10String))
  /\ UNCHANGED <<outsideCodec, base10String>>

NextCodec == Convert

SpecCodec == InitCodec /\ [][NextCodec]_vars

\* The string is one or more decimal digits.
IsDecimalLiteral(s) == Len(s) > 0 /\ \A i \in 1..Len(s) : IsDigit(s[i])

\* The value of a big-endian byte sequence.
RECURSIVE BigEndianValue(_)
BigEndianValue(bytes) ==
  IF Len(bytes) = 0 THEN 0
  ELSE 256 * BigEndianValue(SubSeq(bytes, 1, Len(bytes) - 1)) + bytes[Len(bytes)]

\* C12: for a decimal string denoting v >= 0, convertBase10ToByteArray returns
\* the minimal big-endian bytes of v: their value is v, and there is no
\* leading 0x00 byte except in the single byte [0x00] for v = 0; "255" gives
\* [0xFF] and "256" gives [0x01, 0x00].
C12_MinimalBigEndian ==
  (IsDefined(converted) /\ IsDecimalLiteral(base10String)) =>
    LET r == Get(converted)
    IN /\ ~r.thrown
       /\ Len(r.value) >= 1
       /\ BigEndianValue(r.value) = DigitsValue(base10String)
       /\ Len(r.value) > 1 => r.value[1] # 0
       /\ base10String = <<50, 53, 53>> => r.value = <<255>>
       /\ base10String = <<50, 53, 54>> => r.value = <<1, 0>>

\* "256" was converted to [0x01, 0x00].
C12_Witness ==
  /\ base10String = <<50, 53, 54>>
  /\ converted = Some(Returns(<<1, 0>>))

\* C13: for every string that is not a non-negative decimal literal
\* convertBase10ToByteArray throws and returns no bytes.  (Violated: BigInt
\* accepts "", "-5", "0x10" and white space around a literal.)
C13_RejectsNonDecimal ==
  (IsDefined(converted) /\ ~IsDecimalLiteral(base10String)) =>
    Get(converted).thrown

\* ------------------------------------------------------- QR localizer
\* const sizes: the image's own size, then widths 800, 1000, 1200.
sizes == <<"native", "800", "1000", "1200">>
\* const processingMethods, by name.
processingMethods == <<"original", "highContrast", "grayscale", "binarize", "sharpen">>
\* const inversionMethods
inversionMethods == <<"dontInvert", "attemptBoth">>

\* The number 1..40 of the combination at the three loop positions, by
\* which a scene tells what jsQR makes of it.
Combination(s, m, i) == (s * Len(processingMethods) + m) * Len(inversionMethods) + i + 1
\* The number 1..20 of the pass that draws and filters the canvas.
Pass(s, m) == s * Len(processingMethods) + m + 1

\* jsQR throws on combination n.
JsQRThrows(sc, n) == n = sc.throwAt
\* jsQR returns a code for combination n.
JsQRFinds(sc, n) ==
  /\ ~JsQRThrows(sc, n)
  /\ sc.first # 0
  /\ n = sc.first \/ (sc.later /\ n > sc.first)

LastCombination == Len(sizes) * Len(processingMethods) * Len(inversionMethods)

\* The scenes: the first combination that jsQR decodes (0: none), whether
\* the later ones decode too, the combination on which jsQR throws
\* (0: none), the pass in which drawing or filtering throws (0: none), the
\* decoded text ("" or "12"), and whether the canvas context exists.
Scenes ==
  { [ctx |-> TRUE, first |-> f, later |-> l, throwAt |-> t,
     prepareFailsAt |-> p, data |-> d] :
      f \in 0..LastCombination, l \in BOOLEAN, t \in {0, 2, LastCombination},
      p \in {0, 7}, d \in {<<>>, <<49, 50>>} }
    \cup { [BlankScene EXCEPT !.ctx = FALSE] }

InitSweep ==
  /\ ParserIdle
  /\ CreateIdle
  /\ ScannerIdle
  /\ CodecIdle
  /\ DecodeIdle
  /\ scene \in Scenes
  /\ sweepPc = "start"
  /\ sizeIdx = 0
  /\ methodIdx = 0
  /\ invIdx = 0
  /\ attempted = <<>>
  /\ sweepResult = Undefined

\* if (!this.ctx) throw new Error("Canvas context not available")
NoContext ==
  /\ sweepPc = "start"
  /\ ~scene.ctx
  /\ sweepPc' = "thrown"
  /\ sweepResult' = Some(Throws(<<"Canvas context not available">>))
  /\ UNCHANGED <<outsideSweep, scene, sizeIdx, methodIdx, invIdx, attempted>>

\* The loops are entered at the first size and the first method.
EnterLoops ==
  /\ sweepPc = "start"
  /\ scene.ctx
  /\ sweepPc' = "prepare"
  /\ UNCHANGED <<outsideSweep, scene, sizeIdx, methodIdx, invIdx, attempted,
                 sweepResult>>

\* clearRect, drawImage, method.process(ctx), getImageData: the canvas is
\* ready for the two jsQR calls.
Prepare ==
  /\ sweepPc = "prepare"
  /\ Pass(sizeIdx, methodIdx) # scene.prepareFailsAt
  /\ invIdx' = 0
  /\ sweepPc' = "detect"
  /\ UNCHANGED <<outsideSweep, scene, sizeIdx, methodIdx, attempted, sweepResult>>

\* One of the canvas calls throws: it is outside the try block of the
\* innermost loop, so the call of tryMultipleProcessingMethods ends.
PrepareThrows ==
  /\ sweepPc = "prepare"
  /\ Pass(sizeIdx, methodIdx) = scene.prepareFailsAt
  /\ sweepPc' = "thrown"
  /\ sweepResult' = Some(Throws(<<"canvas">>))
  /\ UNCHANGED <<outsideSweep, scene, sizeIdx, methodIdx, invIdx, attempted>>

\* The loops go on with the first inversion of the next method.
NextPosition_SkipsInversion(s, m, i) ==
  IF m + 1 < Len(processingMethods) THEN [done |-> FALSE, s |-> s, m |-> m + 1, i |-> 0]
  ELSE IF s + 1 < Len(sizes) THEN [done |-> FALSE, s |-> s + 1, m |-> 0, i |-> 0]
  ELSE [done |-> TRUE, s |-> s, m |-> m, i |-> i]

\* Where the three nested for loops go on after the position (s, m, i).
NextPosition(s, m, i) ==
  IF i + 1 < Len(inversionMethods) THEN [done |-> FALSE, s |-> s, m |-> m, i |-> i + 1]
  ELSE IF m + 1 < Len(processingMethods) THEN [done |-> FALSE, s |-> s, m |-> m + 1, i |-> 0]
  ELSE IF s + 1 < Len(sizes) THEN [done |-> FALSE, s |-> s + 1, m |-> 0, i |-> 0]
  ELSE [done |-> TRUE, s |-> s, m |-> m, i |-> i]

\* The jsQR call at the current position.
Attempt == <<sizes[sizeIdx + 1], processingMethods[methodIdx + 1], inversionMethods[invIdx + 1]>>

\* The loops go on after a jsQR call without a code; return null after the
\* last one.
GoOn ==
  LET next == NextPosition(sizeIdx, methodIdx, invIdx)
  IN /\ sizeIdx' = next.s
     /\ methodIdx' = next.m
     /\ invIdx' = next.i
     /\ sweepPc' = IF next.done THEN "returned"
                   ELSE IF next.i = 0 THEN "prepare" ELSE "detect"
     /\ sweepResult' = IF next.done THEN Some(Returns(Undefined)) ELSE sweepResult

\* jsQR returns a code: return code.data
DetectFound ==
  /\ sweepPc = "detect"
  /\ JsQRFinds(scene, Combination(sizeIdx, methodIdx, invIdx))
  /\ attempted' = Append(attempted, Attempt)
  /\ sweepPc' = "returned"
  /\ sweepResult' = Some(Returns(Some(scene.data)))
  /\ UNCHANGED <<outsideSweep, scene, sizeIdx, methodIdx, invIdx>>

\* jsQR returns null.
DetectNone ==
  /\ sweepPc = "detect"
  /\ ~JsQRFinds(scene, Combination(sizeIdx, methodIdx, invIdx))
  /\ ~JsQRThrows(scene, Combination(sizeIdx, methodIdx, invIdx))
  /\ attempted' = Append(attempted, Attempt)
  /\ GoOn
  /\ UNCHANGED <<outsideSweep, scene>>

\* jsQR throws: the catch block logs the error.
DetectThrows ==
  /\ sweepPc = "detect"
  /\ JsQRThrows(scene, Combination(sizeIdx, methodIdx, invIdx))
  /\ attempted' = Append(attempted, Attempt)
  /\ GoOn
  /\ UNCHANGED <<outsideSweep, scene>>

NextSweep ==
  \/ NoContext
  \/ EnterLoops
  \/ Prepare
  \/ PrepareThrows
  \/ DetectFound
  \/ DetectNone
  \/ DetectThrows

SpecSweep == InitSweep /\ [][NextSweep]_vars

\* The n-th attempt in the order sizes, then filters, then inversions.
ExpectedAttempt(n) ==
  << <<"native", "800", "1000", "1200">>[((n - 1) \div 10) + 1],
     <<"original", "highContrast", "grayscale", "binarize", "sharpen">>[(((n - 1) % 10) \div 2) + 1],
     <<"dontInvert", "attemptBoth">>[((n - 1) % 2) + 1] >>

\* tryMultipleProcessingMethods has returned the value v.
SweepReturned(v) == sweepPc = "returned" /\ sweepResult = Some(Returns(v))

\* C15: the attempts are made in the order sizes (native, 800, 1000, 1200),
\* filters (original, highContrast, grayscale, binarize, sharpen),
\* inversions (dontInvert, attemptBoth); a returned text is that of the
\* earliest attempt in which jsQR finds a code, and that attempt is the last
\* one made; null is returned exactly when 40 attempts were made and none
\* found a code; and a jsQR call that throws does not end the sweep.
C15_SweepOrder ==
  /\ \A n \in 1..Len(attempted) : attempted[n] = ExpectedAttempt(n)
  /\ Len(attempted) <= 40
  /\ \A d \in {<<>>, <<49, 50>>} : SweepReturned(Some(d)) =>
       /\ Len(attempted) >= 1
       /\ JsQRFinds(scene, Len(attempted))
       /\ \A k \in 1..(Len(attempted) - 1) : ~JsQRFinds(scene, k)
       /\ d = scene.data
  /\ sweepPc = "returned" =>
       (sweepResult = Some(Returns(Undefined))
          <=> (Len(attempted) = 40 /\ \A k \in 1..40 : ~JsQRFinds(scene, k)))
  /\ sweepPc = "thrown" =>
       \/ ~scene.ctx /\ attempted = <<>>
       \/ scene.prepareFailsAt # 0 /\ Len(attempted) = 2 * (scene.prepareFailsAt - 1)
  /\ (sweepPc \in {"returned", "thrown"} /\ scene.throwAt \in 1..Len(attempted)
        /\ scene.throwAt < 40 /\ scene.prepareFailsAt = 0)
       => Len(attempted) > scene.throwAt

\* jsQR threw in the second attempt and found the code in the 11th, the
\* first of the second size.
C15_Witness ==
  /\ SweepReturned(Some(<<49, 50>>))
  /\ scene.throwAt = 2
  /\ scene.first = 11
  /\ Len(attempted) = 11
  /\ attempted[11] = <<"800", "original", "dontInvert">>

\* ------------------------------------------------------- orchestrator
\* new Error(`${prefix}: ${error.message}`) without the message of the cause.
Wrap_DropsCause(prefix, message) == <<prefix>>

\* new Error(`${prefix}: ${error.message}`)
Wrap(prefix, message) == <<prefix>> \o message

DECODING_FAILED == "QR Code decoding failed"
PROCESSING_FAILED == "Data processing failed"
EXTRACT_FAILED == "Failed to extract data fields"
NO_CODE == "No QR code found in the image. Please try a clearer image or different lighting."

\* scanFromFile(imageFile): the string it resolves with, or the Error it
\* rejects with.
scanFromFile(f) ==
  IF ~f.typeOk THEN Throws(<<"Please select a valid image file">>)
  ELSE IF ~f.readOk THEN Throws(<<"Failed to read the file">>)
  ELSE IF ~f.loadOk THEN Throws(<<"Failed to load the image">>)
  ELSE IF f.sweep.thrown THEN Throws(Wrap("Error processing image", f.sweep.message))
  ELSE IF Truthy(f.sweep.value) THEN Returns(Get(f.sweep.value))
  ELSE Throws(<<NO_CODE>>)

\* The input kept on a failed inflate is replaced by no bytes.
decompressData_Empty(compressedData, inflate) ==
  IF inflate.thrown THEN <<>> ELSE inflate.value

\* decompressData(compressedData), given what pako.inflate makes of the data.
decompressData(compressedData, inflate) ==
  IF inflate.thrown THEN compressedData ELSE inflate.value

\* What extractDataFields makes of the bytes: it throws for no bytes at all
\* (fieldValues[0] is undefined) and returns a record for any other array.
extractDataFields(bytes) ==
  IF Len(bytes) = 0
  THEN Throws(<<EXTRACT_FAILED,
                "Cannot read properties of undefined (reading 'trim') (at index 0)">>)
  ELSE Returns([payload |-> bytes])

\* The strings a QR code may hold: "", "12", "256", "65536", "-5", "x",
\* "0x10", "1 2".
RawStrings ==
  { <<>>, <<49, 50>>, <<50, 53, 54>>, <<54, 53, 53, 51, 54>>, <<45, 53>>,
    <<120>>, <<48, 120, 49, 48>>, <<49, 32, 50>> }

\* What pako.inflate may make of the bytes: an error, no bytes, or a record.
InflateOutcomes ==
  { Throws(<<"incorrect header check">>), Returns(<<>>),
    Returns(<<50, DELIMITER, 82, DELIMITER>>), Returns(<<48>>) }

ImageFiles ==
  { [BlankFile EXCEPT !.typeOk = FALSE], [BlankFile EXCEPT !.readOk = FALSE],
    [BlankFile EXCEPT !.loadOk = FALSE],
    [BlankFile EXCEPT !.sweep = Throws(<<"Canvas context not available">>)] }
    \cup { [BlankFile EXCEPT !.sweep = w, !.inflate = z] :
             w \in {Returns(Undefined)} \cup {Returns(Some(r)) : r \in RawStrings},
             z \in InflateOutcomes }

InitDecode ==
  /\ ParserIdle
  /\ CreateIdle
  /\ ScannerIdle
  /\ CodecIdle
  /\ SweepIdle
  /\ imageFile \in ImageFiles
  /\ decodePc = "scan"
  /\ stagesRun = <<>>
  /\ rawData = Undefined
  /\ compressed = Undefined
  /\ decompressedBytes = Undefined
  /\ decoded = Undefined

\* const rawData = await this.scanFromFile(imageFile); a rejection goes to
\* the catch block of decodeFromFile.
Scan ==
  /\ decodePc = "scan"
  /\ stagesRun' = Append(stagesRun, "localize")
  /\ LET r == scanFromFile(imageFile)
     IN IF r.thrown
        THEN /\ decodePc' = "rejected"
             /\ decoded' = Some(Throws(Wrap(DECODING_FAILED, r.message)))
             /\ rawData' = rawData
        ELSE /\ decodePc' = "convert"
             /\ rawData' = Some(r.value)
             /\ decoded' = decoded
  /\ UNCHANGED <<outsideDecode, imageFile, compressed, decompressedBytes>>

\* const byteArray = this.convertBase10ToByteArray(rawData); an Error goes
\* through the catch blocks of processSecureQRData and decodeFromFile.
ConvertStage ==
  /\ decodePc = "convert"
  /\ stagesRun' = Append(stagesRun, "convert")
  /\ LET r == convertBase10ToByteArray(Get(rawData))
     IN IF r.thrown
        THEN /\ decodePc' = "rejected"
             /\ decoded' = Some(Throws(Wrap(DECODING_FAILED,
                                            Wrap(PROCESSING_FAILED, r.message))))
             /\ compressed' = compressed
        ELSE /\ decodePc' = "decompress"
             /\ compressed' = Some(r.value)
             /\ decoded' = decoded
  /\ UNCHANGED <<outsideDecode, imageFile, rawData, decompressedBytes>>

\* const decompressedBytes = this.decompressData(byteArray)
DecompressStage ==
  /\ decodePc = "decompress"
  /\ stagesRun' = Append(stagesRun, "decompress")
  /\ decompressedBytes' = Some(decompressData(Get(compressed), imageFile.inflate))
  /\ decodePc' = "extract"
  /\ UNCHANGED <<outsideDecode, imageFile, rawData, compressed, decoded>>

\* return this.extractDataFields(decompressedBytes), up to the date of birth
\* step; an Error goes through the two catch blocks.
ExtractStage ==
  /\ decodePc = "extract"
  /\ stagesRun' = Append(stagesRun, "parse")
  /\ LET r == extractDataFields(Get(decompressedBytes))
     IN IF r.thrown
        THEN /\ decodePc' = "rejected"
             /\ decoded' = Some(Throws(Wrap(DECODING_FAILED,
                                            Wrap(PROCESSING_FAILED, r.message))))
        ELSE /\ decodePc' = "age"
             /\ decoded' = decoded
  /\ UNCHANGED <<outsideDecode, imageFile, rawData, compressed, decompressedBytes>>

\* The date of birth step of extractDataFields, which does not throw; the
\* record is returned through processSecureQRData to the caller.
AgeStage ==
  /\ decodePc = "age"
  /\ stagesRun' = Append(stagesRun, "age")
  /\ decoded' = Some(extractDataFields(Get(decompressedBytes)))
  /\ decodePc' = "resolved"
  /\ UNCHANGED <<outsideDecode, imageFile, rawData, compressed, decompressedBytes>>

NextDecode ==
  \/ Scan
  \/ ConvertStage
  \/ DecompressStage
  \/ ExtractStage
  \/ AgeStage

SpecDecode == InitDecode /\ [][NextDecode]_vars

\* C14: decompressData always returns; when inflate throws, it returns the
\* bytes it was given, and processSecureQRData goes on to extractDataFields
\* with those bytes.
C14_InflateFailureKeepsBytes ==
  /\ decodePc \in {"extract", "age", "resolved"} => IsDefined(decompressedBytes)
  /\ (IsDefined(decompressedBytes) /\ imageFile.inflate.thrown) =>
       decompressedBytes = compressed
  /\ (IsDefined(decompressedBytes) /\ decodePc \in {"resolved", "rejected"}) =>
       /\ stagesRun[4] = "parse"
       /\ decodePc = "resolved" =>
            decoded = Some(Returns([payload |-> Get(decompressedBytes)]))

\* "256" was read, inflate threw, and the record of the bytes [0x01, 0x00]
\* was returned.
C14_Witness ==
  /\ decodePc = "resolved"
  /\ imageFile.inflate.thrown
  /\ compressed = Some(<<1, 0>>)
  /\ decoded = Some(Returns([payload |-> <<1, 0>>]))

StageOrder == <<"localize", "convert", "decompress", "parse", "age">>

\* The message segments by which an Error of decodeFromFile names the stage
\* that failed, before the cause.
StageTag(stage) ==
  IF stage = "localize" THEN <<DECODING_FAILED>>
  ELSE IF stage = "convert" THEN <<DECODING_FAILED, PROCESSING_FAILED, CONVERT_FAILED>>
  ELSE IF stage = "parse" THEN <<DECODING_FAILED, PROCESSING_FAILED, EXTRACT_FAILED>>
  ELSE <<"never">>

\* The messages of the errors that the stages raise themselves.
LocalizeCauses ==
  { <<"Please select a valid image file">>, <<"Failed to read the file">>,
    <<"Failed to load the image">>, <<NO_CODE>>,
    <<"Error processing image", "Canvas context not available">> }
OriginalCauses ==
  LocalizeCauses
    \cup { <<"Cannot convert to a BigInt">>,
           <<"Cannot read properties of undefined (reading 'trim') (at index 0)">> }

\* C16: the stages run in the order localize, convert, decompress, parse,
\* age; a stage that fails is the last one run, no record is returned, and
\* the Error names that stage and ends with the message of the cause; a
\* record is returned only after all five stages.
C16_StagesInOrder ==
  /\ stagesRun = SubSeq(StageOrder, 1, Len(stagesRun))
  /\ decodePc = "rejected" =>
       LET e == Get(decoded)
           tag == StageTag(stagesRun[Len(stagesRun)])
       IN /\ e.thrown
          /\ e.value = <<>>
          /\ Len(e.message) > Len(tag)
          /\ SubSeq(e.message, 1, Len(tag)) = tag
          /\ SubSeq(e.message, Len(tag) + 1, Len(e.message)) \in OriginalCauses
          /\ stagesRun[Len(stagesRun)] = "localize" =>
               e.message[2] \notin {PROCESSING_FAILED}
  /\ decodePc = "resolved" => (stagesRun = StageOrder /\ ~Get(decoded).thrown)
  /\ IsDefined(decoded) <=> decodePc \in {"resolved", "rejected"}

\* "x" was read: the convert stage failed and the Error names it and the
\* cause.
C16_Witness ==
  /\ decodePc = "rejected"
  /\ stagesRun = <<"localize", "convert">>
  /\ decoded = Some(Throws(<<DECODING_FAILED, PROCESSING_FAILED, CONVERT_FAILED,
                              "Cannot convert to a BigInt">>))

\* ------------------------------------------------------ create identity
\* The hash of a string and the Poseidon hash of a tuple, as values that
\* tell their inputs apart.
hashString(str) == [hashOf |-> str]
poseidon(inputs) == [poseidonOf |-> inputs]

\* "unknown"
Unknown == <<117, 110, 107, 110, 111, 119, 110>>

\* a || b where a is an optional number: 0 and undefined give b.
OrNumber(a, b) == IF IsDefined(a) /\ Get(a) # 0 THEN Get(a) ELSE b
\* a || false where a is an optional boolean.
OrFalse(a) == IF IsDefined(a) THEN Get(a) ELSE FALSE

\* The unique identifier: data.referenceId, or the hash of data.name (of
\* "unknown" without a name) as a string.
UidOf(data) ==
  IF Truthy(data.referenceId)
  THEN [text |-> Get(data.referenceId), hashed |-> FALSE]
  ELSE [text |-> IF Truthy(data.name) THEN Get(data.name) ELSE Unknown,
        hashed |-> TRUE]

Bit(b) == IF b THEN 1 ELSE 0

\* generateZkProof(data): the data carries no livenessVerified property.
generateZkProof(data) ==
  LET uid == UidOf(data)
      age == OrNumber(data.age, 0)
      isAdult == OrFalse(data.isAdult)
      liveness == FALSE
  IN [proofId |-> hashString(uid),
      commitment |-> poseidon(<<hashString(uid), age, Bit(isAdult), Bit(liveness)>>),
      publicSignals |-> [isAdult |-> isAdult, livenessVerified |-> liveness]]

\* The records the scanner may deliver: with or without a reference id,
\* with or without age and isAdult.
ScannedRecords ==
  { [referenceId |-> r, name |-> Some(<<97, 98>>), age |-> a[1], isAdult |-> a[2]] :
      r \in {Undefined, Some(<<49, 50, 51, 52, 53>>), Some(<<57, 56, 55, 54, 53>>)},
      a \in { <<Undefined, Undefined>>, <<Some(0), Some(FALSE)>>,
              <<Some(17), Some(FALSE)>>, <<Some(18), Some(TRUE)>> } }

\* What may be typed into the digits field.
TypedDigits == { <<49, 50, 51, 52>>, <<57, 56, 55, 54>> }

InitCreate ==
  /\ ParserIdle
  /\ CodecIdle
  /\ SweepIdle
  /\ DecodeIdle
  /\ CreateIdle
  /\ ScannerIdle

\* The Connect Wallet button of step 1.
Connect ==
  /\ step = STEP_SCAN
  /\ ~signer
  /\ signer' = TRUE
  /\ UNCHANGED <<outsideCreate, step, qrData, lastFourDigits, identityData,
                 livenessVerified, passedFor, zkProof, proofGenerated, createError, chain>>

\* handleQrCodeScanned(data), called by the QrScanner of step 1.
HandleQrCodeScanned ==
  /\ step = STEP_SCAN
  /\ signer
  /\ \E data \in ScannedRecords : qrData' = Some(data)
  /\ createError' = Undefined
  /\ step' = STEP_DIGITS
  /\ UNCHANGED <<outsideCreate, signer, lastFourDigits, identityData,
                 livenessVerified, passedFor, zkProof, proofGenerated, chain>>

\* onChange of the digits field of step 2.
SetLastFourDigits ==
  /\ step = STEP_DIGITS
  /\ \E v \in TypedDigits : lastFourDigits' = v
  /\ UNCHANGED <<outsideCreate, step, signer, qrData, identityData,
                 livenessVerified, passedFor, zkProof, proofGenerated, createError, chain>>

\* verifyLastFourDigits, the Verify button of step 2 (enabled with four
\* characters typed).
VerifyLastFourDigits ==
  /\ step = STEP_DIGITS
  /\ Len(lastFourDigits) = 4
  /\ IF ~IsDefined(qrData) \/ ~Truthy(Get(qrData).referenceId)
     THEN /\ createError' = Some("No identity data found. Please scan your ID again.")
          /\ UNCHANGED <<identityData, step>>
     ELSE IF lastFourDigits = SubSeq(Get(Get(qrData).referenceId), 1, 4)
     THEN /\ identityData' = qrData
          /\ step' = STEP_LIVENESS
          /\ createError' = Undefined
     ELSE /\ createError' = Some("The digits you entered do not match our records.")
          /\ UNCHANGED <<identityData, step>>
  /\ UNCHANGED <<outsideCreate, signer, qrData, lastFourDigits,
                 livenessVerified, passedFor, zkProof, proofGenerated, chain>>

\* handleLivenessComplete(success), called by the liveness check of step 2.5.
HandleLivenessComplete ==
  /\ step = STEP_LIVENESS
  /\ \E success \in BOOLEAN :
       /\ livenessVerified' = IF success THEN TRUE ELSE livenessVerified
       /\ passedFor' = IF success THEN identityData ELSE passedFor
  /\ step' = STEP_PROOF
  /\ UNCHANGED <<outsideCreate, signer, qrData, lastFourDigits, identityData,
                 zkProof, proofGenerated, createError, chain>>

\* generateProof, the button of step 3: the proof of generateZkProof with
\* the page's livenessVerified written into its public signals.
GenerateProof ==
  /\ step = STEP_PROOF
  /\ IsDefined(identityData)
  /\ zkProof' = Some([generateZkProof(Get(identityData)) EXCEPT
                        !.publicSignals.livenessVerified = livenessVerified])
  /\ proofGenerated' = TRUE
  /\ createError' = Undefined
  /\ step' = STEP_STORE
  /\ UNCHANGED <<outsideCreate, signer, qrData, lastFourDigits, identityData,
                 livenessVerified, passedFor, chain>>

\* generateProof when generateZkProof throws (buildPoseidon fails).
GenerateProofFails ==
  /\ step = STEP_PROOF
  /\ IsDefined(identityData)
  /\ createError' = Some("Failed to generate zero-knowledge proof")
  /\ UNCHANGED <<outsideCreate, step, signer, qrData, lastFourDigits,
                 identityData, livenessVerified, passedFor, zkProof, proofGenerated, chain>>

\* storeIdentityProof(signer, proof): the arguments of contract.storeProof.
storeIdentityProof(proof) ==
  [proofId |-> proof.proofId,
   commitment |-> proof.commitment,
   isAdult |-> proof.publicSignals.isAdult,
   proofData |-> [livenessVerified |-> proof.publicSignals.livenessVerified]]

\* storeProofOnChain, the button of step 4, when the transaction is sent.
StoreProofOnChain ==
  /\ step = STEP_STORE
  /\ IsDefined(zkProof)
  /\ signer
  /\ chain' = Some(storeIdentityProof(Get(zkProof)))
  /\ createError' = Undefined
  /\ step' = STEP_DONE
  /\ UNCHANGED <<outsideCreate, signer, qrData, lastFourDigits, identityData,
                 livenessVerified, passedFor, zkProof, proofGenerated>>

\* storeProofOnChain when the transaction fails.
StoreProofFails ==
  /\ step = STEP_STORE
  /\ IsDefined(zkProof)
  /\ signer
  /\ createError' = Some("Failed to store proof on blockchain")
  /\ UNCHANGED <<outsideCreate, step, signer, qrData, lastFourDigits,
                 identityData, livenessVerified, passedFor, zkProof, proofGenerated, chain>>

\* The Back button, shown for 1 < step < 5: setStep(step - 1).
Back ==
  /\ step > STEP_SCAN
  /\ step < STEP_DONE
  /\ step' = step - 2
  /\ UNCHANGED <<outsideCreate, signer, qrData, lastFourDigits, identityData,
                 livenessVerified, passedFor, zkProof, proofGenerated, createError, chain>>

NextCreate ==
  \/ Connect
  \/ HandleQrCodeScanned
  \/ SetLastFourDigits
  \/ VerifyLastFourDigits
  \/ HandleLivenessComplete
  \/ GenerateProof
  \/ GenerateProofFails
  \/ StoreProofOnChain
  \/ StoreProofFails
  \/ Back

SpecCreate == InitCreate /\ [][NextCreate]_vars

\* C20: a proof generated for a record without age and isAdult does not
\* publish isAdult = false and does not commit to age 0 or to the adult bit
\* 0, and such a proof is not stored on chain with isAdult = false.
\* (Violated: generateZkProof takes the absent values for 0 and false.)
C20_AbsentIsNotFalse ==
  /\ [][(zkProof' # zkProof /\ IsDefined(identityData)
          /\ ~IsDefined(Get(identityData).isAdult))
        => /\ Get(zkProof').publicSignals.isAdult # FALSE
           /\ Get(zkProof').commitment.poseidonOf[2] # 0
           /\ Get(zkProof').commitment.poseidonOf[3] # 0]_vars

\* ------------------------------------------------------------- QR scanner
\* The isProcessing prop: the page holds it false while the scanner is shown.
isProcessing == FALSE

\* What startCamera, stopCamera and the callbacks read and write: the
\* component's state and refs, its pending callbacks and the streams.
Scanner ==
  [cameraActive |-> cameraActive, isScanning |-> isScanning,
   decoderRef |-> decoderRef, streamRef |-> streamRef,
   animationFrameRef |-> animationFrameRef, tasks |-> tasks,
   liveStreams |-> liveStreams, scanned |-> scanned]

Becomes(c) ==
  /\ cameraActive' = c.cameraActive
  /\ isScanning' = c.isScanning
  /\ decoderRef' = c.decoderRef
  /\ streamRef' = c.streamRef
  /\ animationFrameRef' = c.animationFrameRef
  /\ tasks' = c.tasks
  /\ liveStreams' = c.liveStreams
  /\ scanned' = c.scanned

Task(kind, id, captured) == [kind |-> kind, id |-> id, captured |-> captured]

\* videoRef.current is not null: the video element is rendered on the
\* Camera tab while cameraActive is true.
VideoRef(tab, active) == mounted /\ tab = "camera" /\ active

\* A state setter: without effect once the component is unmounted.
SetCameraActive(c, v) == IF mounted THEN [c EXCEPT !.cameraActive = v] ELSE c
SetIsScanning(c, v) == IF mounted THEN [c EXCEPT !.isScanning = v] ELSE c

\* stopCamera(): cancel the frame of animationFrameRef, stop the tracks of
\* the stream of streamRef, detach the video's source, setCameraActive(false).
stopCamera(c, video) ==
  LET c1 == IF c.animationFrameRef # 0
            THEN [c EXCEPT
                    !.tasks = {t \in @ : ~(t.kind = "frame"
                                           /\ t.id = c.animationFrameRef)},
                    !.animationFrameRef = 0]
            ELSE c
      c2 == IF c1.streamRef # 0
            THEN [c1 EXCEPT !.liveStreams = @ \ {c1.streamRef}, !.streamRef = 0]
            ELSE c1
      c3 == IF video
            THEN [c2 EXCEPT !.tasks = {t \in @ : t.kind # "loadedmetadata"}]
            ELSE c2
  IN SetCameraActive(c3, FALSE)

\* startCamera() up to its await: getUserMedia is pending.  captured is the
\* cameraActive of the render whose startCamera is called.
startCamera(c, id, captured) ==
  [c EXCEPT !.tasks = @ \cup {Task("getUserMedia", id, captured)}]

\* scanQrCodeFromCamera() of the render that captured t.captured, up to its
\* await of decodeFromFile.
scanQrCodeFromCamera(c, t, video) ==
  IF ~video \/ ~c.decoderRef \/ ~t.captured THEN c
  ELSE [c EXCEPT !.tasks = @ \cup {Task("cameraDecode", t.id, t.captured)}]

\* startCamera() after its await: the stream is stored, and attached to the
\* video element when there is one; a rejection is reported.
AfterGetUserMedia(c, t, ok) ==
  IF ~ok THEN c
  ELSE LET c1 == [c EXCEPT !.streamRef = t.id, !.liveStreams = @ \cup {t.id}]
       IN IF VideoRef(activeTab, cameraActive)
          THEN [c1 EXCEPT !.tasks = {u \in @ : u.kind # "loadedmetadata"}
                                      \cup {Task("loadedmetadata", t.id, t.captured)}]
          ELSE c1

\* video.onloadedmetadata: setCameraActive(true); scanQrCodeFromCamera().
OnLoadedMetadata(c, t) ==
  scanQrCodeFromCamera(SetCameraActive(c, TRUE), t, VideoRef(activeTab, cameraActive))

\* scanQrCodeFromCamera() after its await: with a result stopCamera() and
\* onScan(result); after a failure the next frame is requested.
AfterCameraDecode(c, t, ok) ==
  IF ok
  THEN LET c1 == stopCamera(c, VideoRef(activeTab, cameraActive))
       IN [c1 EXCEPT !.scanned = @ + 1]
  ELSE [c EXCEPT !.animationFrameRef = t.id,
                 !.tasks = @ \cup {Task("frame", t.id, t.captured)}]

\* handleFileUpload after its await: onScan(result) or setError, and
\* setIsScanning(false).
AfterUploadDecode(c, t, ok) ==
  SetIsScanning(IF ok THEN [c EXCEPT !.scanned = @ + 1] ELSE c, FALSE)

\* The cleanups run when the component is unmounted: that of the tab effect
\* (stopCamera() if it captured cameraActive = true), then decoderRef.current
\* = null and stopCamera().
Cleanups(c, video) ==
  LET c1 == IF effectCameraActive THEN stopCamera(c, video) ELSE c
  IN stopCamera([c1 EXCEPT !.decoderRef = FALSE], video)

\* The upload input and button are enabled.
UploadEnabled_Always(scanning, processing) == TRUE
UploadEnabled(scanning, processing) == ~(scanning \/ processing)

InitScanner ==
  /\ ParserIdle
  /\ CodecIdle
  /\ SweepIdle
  /\ DecodeIdle
  /\ CreateIdle
  /\ ScannerIdle

\* handleTabChange(value), the render that follows, and the tab effect: the
\* cleanup of the previous run, then the new run.
HandleTabChange ==
  /\ mounted
  /\ \E value \in {"upload", "camera"} \ {activeTab} :
       LET video == VideoRef(value, cameraActive)
           starts == value = "camera" /\ ~cameraActive /\ ~isProcessing
           c1 == IF effectCameraActive THEN stopCamera(Scanner, video)
                 ELSE Scanner
           c2 == IF starts THEN startCamera(c1, nextId, cameraActive)
                 ELSE IF value # "camera" /\ cameraActive
                      THEN stopCamera(c1, video)
                 ELSE c1
       IN /\ starts => nextId <= MaxCalls
          /\ activeTab' = value
          /\ effectCameraActive' = cameraActive
          /\ nextId' = IF starts THEN nextId + 1 ELSE nextId
          /\ Becomes(c2)
  /\ UNCHANGED <<outsideScanner, mounted>>

\* The Start Camera button, shown on the Camera tab while cameraActive is
\* false.
ClickStartCamera ==
  /\ mounted
  /\ activeTab = "camera"
  /\ ~cameraActive
  /\ ~isProcessing
  /\ nextId <= MaxCalls
  /\ Becomes(startCamera(Scanner, nextId, cameraActive))
  /\ nextId' = nextId + 1
  /\ UNCHANGED <<outsideScanner, mounted, activeTab, effectCameraActive>>

\* handleFileUpload(event) with a file chosen, up to its await.
HandleFileUpload ==
  /\ mounted
  /\ activeTab = "upload"
  /\ UploadEnabled(isScanning, isProcessing)
  /\ nextId <= MaxCalls
  /\ Becomes([SetIsScanning(Scanner, TRUE) EXCEPT
                !.decoderRef = TRUE,
                !.tasks = @ \cup {Task("uploadDecode", nextId, cameraActive)}])
  /\ nextId' = nextId + 1
  /\ UNCHANGED <<outsideScanner, mounted, activeTab, effectCameraActive>>

\* The calls of stopCamera from outside the tab effect: the close button
\* over the video, and the cleanups when the component is unmounted.
StopCameraCalled ==
  /\ mounted
  /\ \E unmount \in BOOLEAN :
       LET video == VideoRef(activeTab, cameraActive)
       IN IF unmount
          THEN /\ Becomes(Cleanups(Scanner, video))
               /\ mounted' = FALSE
          ELSE /\ video
               /\ Becomes(stopCamera(Scanner, video))
               /\ mounted' = mounted
  /\ UNCHANGED <<outsideScanner, activeTab, effectCameraActive, nextId>>

\* A pending callback runs: a promise settles (ok: fulfilled), the video
\* fires loadedmetadata, or an animation frame comes.  onScan is the page's
\* handleQrCodeScanned, whose setStep(2) unmounts the scanner.
RunCallback ==
  /\ \E t \in tasks, ok \in BOOLEAN :
       LET c == [Scanner EXCEPT !.tasks = @ \ {t}]
           video == VideoRef(activeTab, cameraActive)
           after ==
             IF t.kind = "getUserMedia" THEN AfterGetUserMedia(c, t, ok)
             ELSE IF t.kind = "loadedmetadata" THEN OnLoadedMetadata(c, t)
             ELSE IF t.kind = "frame" THEN scanQrCodeFromCamera(c, t, video)
             ELSE IF t.kind = "cameraDecode" THEN AfterCameraDecode(c, t, ok)
             ELSE AfterUploadDecode(c, t, ok)
       IN /\ t.kind \in {"loadedmetadata", "frame"} => ok
          /\ IF mounted /\ after.scanned > scanned
             THEN /\ Becomes(Cleanups(after, video))
                  /\ mounted' = FALSE
             ELSE /\ Becomes(after)
                  /\ mounted' = mounted
  /\ UNCHANGED <<outsideScanner, activeTab, effectCameraActive, nextId>>

NextScanner ==
  \/ HandleTabChange
  \/ ClickStartCamera
  \/ HandleFileUpload
  \/ StopCameraCalled
  \/ RunCallback

SpecScanner == InitScanner /\ [][NextScanner]_vars

DecodesInFlight == {t \in tasks : t.kind \in {"cameraDecode", "uploadDecode"}}
PollingPending ==
  {t \in tasks : t.kind \in {"loadedmetadata", "cameraDecode", "frame"}}

\* C21: once the scan has ended (the component is unmounted, or the Camera
\* tab is left) and no getUserMedia call is pending, no stream obtained by
\* startCamera has running tracks, no frame callback is scheduled and no
\* camera frame is being decoded.
\* (Violated: stopCamera stops only the stream that streamRef holds when it
\* is called, and leaving the tab calls it only when cameraActive is true.)
C21_EndedScanReleasesCamera ==
  ((~mounted \/ activeTab # "camera")
     /\ ~\E t \in tasks : t.kind = "getUserMedia")
    => /\ liveStreams = {}
       /\ ~\E t \in tasks : t.kind \in {"frame", "cameraDecode"}

\* C22: at most one decodeFromFile call of the scanner is in flight.
C22_OneDecodeInFlight == Cardinality(DecodesInFlight) <= 1

\* An uploaded file is being decoded while the Camera tab is shown with a
\* stream obtained, and the upload controls are disabled.
C22_Witness ==
  /\ mounted
  /\ \E t \in tasks : t.kind = "uploadDecode"
  /\ activeTab = "camera"
  /\ streamRef # 0
  /\ isScanning

\* C26: while the component holds a stream obtained by startCamera, polling
\* goes on: a frame decode is in flight, or a frame callback or the video's
\* loadedmetadata handler is pending.
\* (Violated: the video element is rendered only while cameraActive is
\* true, so startCamera finds videoRef.current null and installs no handler;
\* and the scanQrCodeFromCamera it would call has captured cameraActive =
\* false and returns at once.)
C26_PollingGoesOn ==
  (mounted /\ streamRef # 0) => PollingPending # {}

\* The named text fields of a record, in the order of their positions 1..15.
NamedFields(r) ==
  <<r.referenceId, r.name, r.dateOfBirth, r.gender, r.careOf, r.district,
    r.landmark, r.house, r.location, r.pinCode, r.postOffice, r.state,
    r.street, r.subDistrict, r.vtc>>

\* The token at 0-based position i, absent beyond the end of the list.
TokenOrAbsent(tokens, i) ==
  IF i < Len(tokens) THEN Some(tokens[i + 1]) ELSE Undefined

\* token[0] does not parse as an integer and token[1] is "3".
Anomalous(tokens) ==
  /\ isNaN(parseInt(trim(tokens[1])))
  /\ Len(tokens) >= 2
  /\ tokens[2] = Three

\* C23: the step after the first pass shifts the fields exactly when token[0]
\* does not parse as an integer and token[1] is "3".  Then the indicator is 3,
\* position i holds the original token[i+1] for 1 <= i <= n-2 and every other
\* position its own token; otherwise every position holds its own token.  The
\* assignment that follows gives the named field at position i (1..14, and 15
\* when there are 16 tokens) the token then held at position i.
C23_ShiftExactlyOnAnomaly ==
  [][/\ (pc = "specialCase" /\ pc' = "assign") =>
          LET n == Len(fieldValues)
          IN /\ fieldShift' = Anomalous(fieldValues)
             /\ Len(fieldValues') = n
             /\ Anomalous(fieldValues) =>
                  /\ result'.emailMobilePresent = Some(3)
                  /\ \A i \in 0..(n - 1) :
                       fieldValues'[i + 1] =
                         IF 1 <= i /\ i <= n - 2 THEN fieldValues[i + 2]
                         ELSE fieldValues[i + 1]
             /\ ~Anomalous(fieldValues) => fieldValues' = fieldValues
     /\ (pc = "assign" /\ pc' = "skipText") =>
          \A i \in 1..MAX_FIELDS :
            NamedFields(result')[i] =
              IF i = MAX_FIELDS /\ Len(fieldValues) <= MAX_FIELDS THEN Undefined
              ELSE TokenOrAbsent(fieldValues, i)]_vars

\* A record of 16 tokens "A", "3", ... was read with the fields shifted: the
\* reference id is the token written at position 2.
C23_Witness ==
  /\ Returned
  /\ fieldShift
  /\ Len(fieldValues) = MAX_FIELDS + 1
  /\ Len(layout.tokens) >= 3
  /\ result.referenceId = Some(layout.tokens[3])
  /\ result.emailMobilePresent = Some(3)

\* C24: the correction applied to the corrected field values gives the same
\* field values and the same indicator.
\* (Violated: the shift removes the "3", so a second application takes the
\* other branch and sets the indicator to 0; and with a "3" at position 2 as
\* well it shifts once more.)
C24_CorrectionIdempotent ==
  (pc = "assign") =>
    LET again == AnomalyCorrection(fieldValues)
    IN /\ again.fieldValues = fieldValues
       /\ Some(again.emailMobilePresent) = result.emailMobilePresent

\* The offsets of the delimiters of a byte array, and the offset of the n-th
\* of them (the length of the array when there are fewer).
DelimiterOffsets(arr) == {k \in 0..(Len(arr) - 1) : arr[k + 1] = DELIMITER}
NthDelimiter(arr, n) ==
  LET offsets == DelimiterOffsets(arr)
      nth == {k \in offsets : Cardinality({j \in offsets : j < k}) = n - 1}
  IN IF nth = {} THEN Len(arr) ELSE CHOOSE k \in nth : TRUE

\* C25: the first pass reads at most 16 tokens, and the position it has
\* reached is never beyond the byte after the 16th delimiter of the payload.
C25_AtMostSixteenTokens ==
  /\ Len(fieldValues) <= MAX_FIELDS + 1
  /\ index <= NthDelimiter(byteArray, MAX_FIELDS + 1) + 1

\* The first pass has stopped after 16 tokens, before the end of a payload
\* that has delimiters further on.
C25_Witness ==
  /\ pc # "firstPass"
  /\ Len(fieldValues) = MAX_FIELDS + 1
  /\ \E k \in DelimiterOffsets(byteArray) : k >= index

\* C27: an age carried by the record is between 0 and 120.
C27_AgeInRange ==
  IsDefined(result.age) => Get(result.age) \in 0..MAX_AGE

\* At midnight, the record of a birth exactly 120 years ago was returned
\* with age 120.
C27_Witness ==
  /\ Returned
  /\ today.t = 0
  /\ IsDefined(dob)
  /\ Get(dob).y = today.y - MAX_AGE
  /\ result.age = Some(MAX_AGE)

\* C28: the liveness bit hashed into the commitment of a generated proof
\* equals the livenessVerified of its public signals, and a stored proof
\* carries that same value.
\* (Violated: generateZkProof hashes data.livenessVerified || false of a
\* record without that property, and generateProof then writes the page's
\* livenessVerified into the public signals only.)
C28_CommittedBitIsPublished ==
  /\ IsDefined(zkProof) =>
       Get(zkProof).commitment.poseidonOf[4]
         = Bit(Get(zkProof).publicSignals.livenessVerified)
  /\ IsDefined(chain) =>
       Get(chain).commitment.poseidonOf[4]
         = Bit(Get(chain).proofData.livenessVerified)

\* C29: a proof is generated with livenessVerified = true only when the last
\* passed liveness check was made for the record now in identityData.
\* (Violated: nothing sets livenessVerified back to false, so a pass for one
\* ID stands when Back leads to another scan whose check is cancelled.)
C29_PassIsForCurrentIdentity ==
  [][(zkProof' # zkProof /\ Get(zkProof').publicSignals.livenessVerified)
       => passedFor = identityData]_vars

\* C30: step is one of 1, 2, 2.5, 3, 4, 5, the steps that render a panel.
\* (Violated: Back at step 2.5 sets step to 1.5, and Back again to 0.5.)
C30_StepIsRendered ==
  step \in {STEP_SCAN, STEP_DIGITS, STEP_LIVENESS, STEP_PROOF, STEP_STORE,
            STEP_DONE}

\* C11: for a payload of exactly 256 bytes whose indicator is 0 (without the
\* field shift), the returned record's photo is empty and its signature is
\* the whole payload.
C11_ExactPayloadIsSignature ==
  (Returned /\ DataLength = SIGNATURE_SIZE /\ ~fieldShift /\ Indicator = 0) =>
    /\ result.photo = Some(<<>>)
    /\ result.signature = Some(byteArray)

\* A 256-byte payload that begins with the tokens "0" and "R" was returned.
C11_Witness ==
  /\ Returned
  /\ DataLength = SIGNATURE_SIZE
  /\ ~fieldShift
  /\ Indicator = 0
  /\ layout \in ExactLayouts
  /\ Len(layout.tokens) = 2
  /\ result.signature = Some(byteArray)

\* <<y, m, d>> is a day of the calendar.
IsCalendarDay(b) ==
  b[2] \in 1..12 /\ b[3] \in 1..DaysInMonth(b[1], b[2])

\* The calendar days that the date-of-birth token of the payload denotes
\* in one of the three forms.
DenotedDays ==
  IF layout \in DatedLayouts
  THEN { b \in BirthDays :
           IsCalendarDay(b) /\ \E f \in DateForms : layout.tokens[4] = DateString(f, b) }
  ELSE {}

\* Day a is before day b.
DayBefore(a, b) ==
  \/ a[1] < b[1]
  \/ a[1] = b[1] /\ a[2] < b[2]
  \/ a[1] = b[1] /\ a[2] = b[2] /\ a[3] < b[3]

TodaysDay == <<today.y, today.m, today.d>>
\* The day 120 years before today's.
OldestDay ==
  LET o == MakeDate(today.y - MAX_AGE, today.m - 1, today.d)
  IN <<o.y, o.m, o.d>>

\* The date-of-birth step is over.
AgeStepDone == pc \in {"calculateAge", "returned"}

\* C17: for a date string in one of the three forms, parseDateOfBirth returns
\* null when the day is after today or more than 120 years before today, and
\* the Date of that day when it is between the two bounds.  (The day exactly
\* 120 years before today is left open.)  (Violated: a year 0000..0099 is
\* taken for 1900..1999.)
C17_DateWithinBounds ==
  AgeStepDone =>
    \A b \in DenotedDays :
      /\ DayBefore(TodaysDay, b) => dob = Undefined
      /\ DayBefore(b, OldestDay) => dob = Undefined
      /\ (DayBefore(OldestDay, b) /\ ~DayBefore(TodaysDay, b))
           => dob = Some(DateOf(b[1], b[2], b[3], 0))

\* Today's month and day precede those of the date of birth.
BirthdayAhead ==
  \/ today.m < Get(dob).m
  \/ today.m = Get(dob).m /\ today.d < Get(dob).d

\* C18: the age is today's year minus the year of birth, minus one exactly
\* when today's (month, day) precedes that of the date of birth; a birth on
\* 2000-06-15 gives 23 on 2024-06-14 and 24 on 2024-06-15.
C18_AgeByBirthday ==
  (Returned /\ IsDefined(dob)) =>
    /\ result.age = Some(today.y - Get(dob).y - (IF BirthdayAhead THEN 1 ELSE 0))
    /\ (Get(dob) = DateOf(2000, 6, 15, 0) /\ TodaysDay = <<2024, 6, 14>>)
         => result.age = Some(23)
    /\ (Get(dob) = DateOf(2000, 6, 15, 0) /\ TodaysDay = <<2024, 6, 15>>)
         => result.age = Some(24)

\* The record of a birth on 2000-06-15 was returned on 2024-06-14.
C18_Witness ==
  /\ Returned
  /\ dob = Some(DateOf(2000, 6, 15, 0))
  /\ TodaysDay = <<2024, 6, 14>>
  /\ result.age = Some(23)

\* C19: age and isAdult are both present or both absent; a returned record
\* has them exactly when parseDateOfBirth accepted the date of birth; isAdult
\* is age >= 18; and extractDataFields does not fail once the date-of-birth
\* step is reached.
C19_AgeAndAdultTogether ==
  /\ IsDefined(result.age) <=> IsDefined(result.isAdult)
  /\ Returned => (IsDefined(result.age) <=> IsDefined(dob))
  /\ IsDefined(result.age) =>
       Get(result.isAdult) = (Get(result.age) >= ADULT_AGE)
  /\ Thrown => ~IsDefined(result.signature)

\* A record with age 18 was returned.
C19_Witness ==
  /\ Returned
  /\ IsDefined(dob)
  /\ result.age = Some(ADULT_AGE)
  /\ result.isAdult = Some(TRUE)


====
